---- MODULE Spec2Model ----
(***************************************************************************)
(* Model of the camera punch tracker (CameraPunchTracker, computePunches)  *)
(* of src/unnamed/part_001.                                                *)
(*                                                                         *)
(* Numbers.  The source computes in IEEE doubles; the model computes in    *)
(* fixed point and rounds every product/quotient to the nearest unit:      *)
(*   lengths and coordinates   1/100 pixel          (3000 = 30 px)         *)
(*   time stamps               1 millisecond                               *)
(*   speeds, powers, thresholds, completion   1/1000                       *)
(*   rangeNorm (range / norm)  1/10000                                     *)
(*   keypoint scores           1/100                                       *)
(* Comparisons against a constant fraction of a length are cross           *)
(* multiplied, so they are exact on the fixed-point values.                *)
(*                                                                         *)
(* An optional value (a field that can be undefined in the source) is a    *)
(* sequence of length at most one: << >> is undefined, <<v>> is v.         *)
(***************************************************************************)
EXTENDS Integers, Sequences, FiniteSets, TLC

\* ------------------------------------------------------------------ bounds
\* Number of pose frames handed to computePunches in one run.
MaxFrames == 4

\* ------------------------------------------------------- program constants
HISTORY_SIZE == 50
\* PERCENTILE = 0.9, in tenths.
PERCENTILE == 9
AVG_WINDOW == 10

\* ----------------------------------------------------------------- numbers
Abs(a) == IF a < 0 THEN -a ELSE a
Max(a, b) == IF a >= b THEN a ELSE b
Min(a, b) == IF a <= b THEN a ELSE b

\* a / b rounded to the nearest integer, halves up (b > 0): Math.round, and
\* the rounding of every fixed-point product and quotient.
RDiv(a, b) == (2 * a + b) \div (2 * b)

\* Largest s with s * s <= n, by bisection on lo..hi.
RECURSIVE SqrtIn(_, _, _)
SqrtIn(n, lo, hi) ==
  IF lo >= hi THEN lo
  ELSE LET mid == (lo + hi + 1) \div 2
       IN IF mid * mid <= n THEN SqrtIn(n, mid, hi) ELSE SqrtIn(n, lo, mid - 1)

\* sqrt(n) rounded to the nearest integer (n < 2^31, so the root is < 46341).
ISqrt(n) ==
  LET s == SqrtIn(n, 0, 46340)
  IN IF n - s * s > s THEN s + 1 ELSE s

\* Math.hypot; exact when the two points share a coordinate.
Hypot(dx, dy) ==
  IF dy = 0 THEN Abs(dx)
  ELSE IF dx = 0 THEN Abs(dy)
  ELSE ISqrt(dx * dx + dy * dy)

distance(a, b) == Hypot(a.x - b.x, a.y - b.y)

\* --------------------------------------------------------- optional values
Undefined == << >>
Some(v) == <<v>>
\* o ?? d
Nullish(o, d) == IF o = Undefined THEN d ELSE o[1]

Point(px, py) == [x |-> px, y |-> py]

\* getKeypoint: the named keypoint of the pose, or undefined.
getKeypoint(keypoints, name) == keypoints[name]

\* ------------------------------------------------------------ score engine
\* [...arr].sort((x, y) => x - y)[i] (i 0-based): the value with at most i
\* elements below it and more than i elements not above it.
SortedAt(arr, i) ==
  CHOOSE v \in {arr[j] : j \in 1..Len(arr)} :
    /\ Cardinality({j \in 1..Len(arr) : arr[j] < v}) <= i
    /\ Cardinality({j \in 1..Len(arr) : arr[j] <= v}) > i

\* Math.max(...arr, v)
MaxOf(arr, v) ==
  CHOOSE m \in {arr[j] : j \in 1..Len(arr)} \cup {v} :
    \A x \in {arr[j] : j \in 1..Len(arr)} \cup {v} : x <= m

\* arr.slice(-n)
SliceLast(s, n) ==
  IF Len(s) <= n THEN s ELSE SubSeq(s, Len(s) - n + 1, Len(s))

\* The index taken by rounding instead of flooring.
PercentileIndexRounded(n, p) == Min(n - 1, Max(0, (p * (n - 1) + 5) \div 10))

\* Index (0-based) the percentile is read at: floor(p * (n - 1)), clamped.
PercentileIndex(n, p) == Min(n - 1, Max(0, (p * (n - 1)) \div 10))

percentile(arr, p) ==
  IF Len(arr) = 0 THEN 0
  ELSE SortedAt(arr, PercentileIndex(Len(arr), p))

\* The baseline floored at 1.0 instead of 0.001.
PercentBaseUnitFloor(power, hist) ==
  LET pc == percentile(hist, PERCENTILE)
  IN Max(1000, IF pc # 0 THEN pc ELSE MaxOf(hist, power))

\* percentile(hist, PERCENTILE) || Math.max(...hist, power), floored at 0.001
PercentBase(power, hist) ==
  LET pc == percentile(hist, PERCENTILE)
  IN Max(1, IF pc # 0 THEN pc ELSE MaxOf(hist, power))

\* The score without its ceiling.
PercentUnclamped(power, hist) ==
  Max(0, RDiv(power * 100, PercentBase(power, hist)))

computePercent(power, hist) ==
  LET pct == RDiv(power * 100, PercentBase(power, hist))
  IN Max(0, Min(150, pct))

\* A push that never evicts.
PushUnbounded(hist, power) == Append(hist, power)

\* A push that overwrites the newest entry instead of appending.
PushOverwrite(hist, power) ==
  IF hist = << >> THEN <<power>> ELSE [hist EXCEPT ![Len(hist)] = power]

\* ref.current.push(power); if (length > HISTORY_SIZE) shift()
PushBounded(hist, power) ==
  LET pushed == Append(hist, power)
  IN IF Len(pushed) > HISTORY_SIZE THEN Tail(pushed) ELSE pushed


\* ------------------------------------------------------------- limb state
\* One side's fields of prevRef.current (prev.left / prev.leftDistToShoulder /
\* prev.leftPunchDetected / ... and their right* twins).  PunchDetected is only
\* ever read through "|| false", so undefined and false are one value.
NewLimb ==
  [hand |-> Undefined, DistToShoulder |-> Undefined, PunchDetected |-> FALSE,
   MaxExtension |-> Undefined, SpeedHistory |-> << >>,
   RestExtension |-> Undefined, RangeNorm |-> Undefined,
   Filtered |-> Undefined, NoiseSpeed |-> Undefined,
   CooldownUntil |-> Undefined]

NewStats == [total |-> 0, lastSpeed |-> 0, lastPower |-> 0, lastPercent |-> 0]

\* A HandDebug value.  A reason is a tuple: its text, then the numbers the
\* source formats into it.
Debug(reasons, completion, speed, speedThreshold, movingForward, movingBackward, rangeNorm, extensionNorm, triggerNorm, restNorm, active) ==
  [completion |-> completion, speed |-> speed,
   speedThreshold |-> speedThreshold, movingForward |-> movingForward,
   movingBackward |-> movingBackward, rangeNorm |-> rangeNorm,
   extensionNorm |-> extensionNorm, triggerNorm |-> triggerNorm,
   restNorm |-> restNorm, reasons |-> reasons, active |-> active]

emptyDebug ==
  Debug(<< <<"waiting">> >>, 0, 0, 0, FALSE, FALSE, 0, 0, 0, 0, FALSE)

ShoulderDebug(reason) ==
  Debug(<< <<reason>> >>, 0, 0, 0, FALSE, FALSE, 0, 0, 0, 0, FALSE)

\* x / norm in 1/10000.
Normalized(x, norm) == RDiv(x * 10000, norm)

\* --------------------------------------------------------- frame geometry
minShoulderScore == 15
minWristScore == 5

\* norm = Math.max(shoulderSpan, 1): one pixel is 100 length units.
Norm(leftShoulderPt, rightShoulderPt) ==
  Max(distance(leftShoulderPt, rightShoulderPt), 100)

\* shMove < 0.08, with shMove = (dl + dr) / (2 * norm).
TorsoStable(leftShoulderPt, rightShoulderPt, prevLeftSh, prevRightSh, norm) ==
  (distance(leftShoulderPt, prevLeftSh)
     + distance(rightShoulderPt, prevRightSh)) * 100 < 8 * 2 * norm

\* now - (prev.t || now), in ms.
DeltaMs(prevT, now) == now - (IF prevT = 0 THEN now ELSE prevT)

\* (len / norm) / dt in 1/1000 per second, dt = max(deltaMs / 1000, 1 / 120).
SpeedOf(len, norm, deltaMs) ==
  LET perSecond == IF deltaMs * 120 < 1000 THEN len * 120
                   ELSE RDiv(len * 1000, deltaMs)
  IN RDiv(perSecond * 1000, norm)

\* Hand selection without the elbow: a usable wrist, else the previous hand
\* position.
SelectHandNoElbow(wrist, elbow, prevWrist) ==
  LET hand == IF wrist # Undefined /\ wrist[1].score >= minWristScore
              THEN wrist ELSE Undefined
  IN IF hand = Undefined /\ prevWrist # Undefined
     THEN Some([x |-> prevWrist[1].x, y |-> prevWrist[1].y, score |-> 0])
     ELSE hand

\* Hand selection without the last resort: a usable wrist, else the elbow.
SelectHandNoPrevious(wrist, elbow, prevWrist) ==
  IF wrist # Undefined /\ wrist[1].score >= minWristScore THEN wrist ELSE elbow

\* Prefer wrist; fall back to elbow; finally to the previous hand position.
SelectHand(wrist, elbow, prevWrist) ==
  LET hand == IF wrist # Undefined /\ wrist[1].score >= minWristScore
              THEN wrist ELSE elbow
  IN IF hand = Undefined /\ prevWrist # Undefined
     THEN Some([x |-> prevWrist[1].x, y |-> prevWrist[1].y, score |-> 0])
     ELSE hand

\* Exponential smoothing, smAlpha = 0.6.
Smooth(prevFiltered, curRaw) ==
  Point(RDiv(prevFiltered.x * 6 + curRaw.x * 4, 10),
        RDiv(prevFiltered.y * 6 + curRaw.y * 4, 10))

\* speedHistory.push(speed); if (length > 5) shift()
PushSpeed(speedHistory, speed) ==
  LET pushed == Append(speedHistory, speed)
  IN IF Len(pushed) > 5 THEN Tail(pushed) ELSE pushed

\* forwardGate = max(norm * 0.003, (maxExt - rest) * 0.03), times 1000.
ForwardGate1000(norm, maxExt, rest) == Max(norm * 3, (maxExt - rest) * 30)

MovingForward(speedFwd, deltaDist, gate1000, rangeNormPrev) ==
  /\ speedFwd > (IF rangeNormPrev # Undefined /\ rangeNormPrev[1] # 0
                 THEN 300 ELSE 150)
  /\ deltaDist * 1000 > gate1000

MovingBackward(speedFwd, deltaDist, gate1000) ==
  deltaDist * 1000 < -gate1000 /\ speedFwd < 200

\* --------------------------------------------------------- extension tracker
\* Noise-aware rest update.
RestUpdate(rest, distToShoulder, movingForward, speedFwd, noise) ==
  IF \/ ~movingForward
     \/ speedFwd * 10 < Max(1500, noise * 12)
     \/ distToShoulder < rest
  THEN rest + RDiv((distToShoulder - rest)
                     * (IF distToShoulder < rest THEN 60 ELSE 3), 100)
  ELSE rest

\* The max estimate without its floor above the rest.
MaxUnclamped(maxExt, rest, norm) == maxExt

\* maxExt = Math.max(maxExt, rest + norm * 0.04)
ClampMax(maxExt, rest, norm) == Max(maxExt, rest + RDiv(norm * 4, 100))

MaxUpdate(maxExt, rest, distToShoulder, movingForward, norm) ==
  LET grown == IF movingForward /\ distToShoulder > maxExt
               THEN maxExt + RDiv((distToShoulder - maxExt) * 3, 10)
               ELSE maxExt
      decayed == IF ~movingForward
                 THEN grown - RDiv((grown - distToShoulder) * 2, 100)
                 ELSE grown
  IN ClampMax(decayed, rest, norm)

ExtensionRange(maxExt, rest, norm) ==
  Max(Max(0, maxExt - rest), RDiv(norm * 2, 100))

\* The speed threshold without its range term.
SpeedThresholdFlat(extensionRange, norm) == 600

\* ----------------------------------------------------------- strike detector
SpeedThreshold(extensionRange, norm) ==
  Max(600, 500 + RDiv(extensionRange * 1200, norm))

\* triggerGain in 1/100.
TriggerGain(extensionRange, norm) ==
  IF extensionRange * 100 < norm * 6 THEN 50
  ELSE IF extensionRange * 10 < norm THEN 60 ELSE 65

TriggerDist(rest, extensionRange, norm) ==
  rest + RDiv(extensionRange * TriggerGain(extensionRange, norm), 100)

ResetDist(rest, extensionRange) == rest + RDiv(extensionRange * 25, 100)

CurrentPower(speedFwd, distToShoulder, norm) ==
  RDiv(speedFwd * Max(400, Min(1600, RDiv(distToShoulder * 1000, norm))), 1000)

\* A cooldown that is never in force.
NoCooldown(cooldownUntil, now) == FALSE

InCooldown(cooldownUntil, now) == Nullish(cooldownUntil, 0) > now

CooldownAfter(now) == now + 250

\* The range gate raised to the range at which calibration is Collecting.
RangeEnoughCollecting(extensionRange, norm) == extensionRange * 100 > norm * 8

RangeEnough(extensionRange, norm) == extensionRange * 100 >= norm * 6

\* The entry test without the Active gate.
PunchEntryWhileActive(punchActive, inCooldown, rangeEnough, movingForward, speedFwd, speedThreshold, distToShoulder, triggerDist) ==
  /\ ~inCooldown
  /\ rangeEnough
  /\ movingForward
  /\ speedFwd >= speedThreshold
  /\ distToShoulder >= triggerDist

PunchEntry(punchActive, inCooldown, rangeEnough, movingForward, speedFwd, speedThreshold, distToShoulder, triggerDist) ==
  /\ ~punchActive
  /\ ~inCooldown
  /\ rangeEnough
  /\ movingForward
  /\ speedFwd >= speedThreshold
  /\ distToShoulder >= triggerDist

\* The exit test on the distance alone.
PunchExitDistanceOnly(punchActive, movingBackward, distToShoulder, resetDist) ==
  punchActive /\ distToShoulder <= resetDist

PunchExit(punchActive, movingBackward, distToShoulder, resetDist) ==
  punchActive /\ (movingBackward \/ distToShoulder <= resetDist)


\* ------------------------------------------------------- per-side loop body
\* What one iteration of "for (const side of sides)" yields: the side's new
\* prev fields, the HandDebug it set (if any), the lastSpeed/lastPower it set
\* (if any), the punch it pushed onto potentialPunches (if any), and whether
\* the iteration threw.
SideResult(limb, debug, stats, punch, thrown) ==
  [limb |-> limb, debug |-> debug, stats |-> stats, punch |-> punch,
   thrown |-> thrown]

\* if (!hand) { ... continue; }  The branch reads rangeNormKey and
\* punchFlagKey, which are const-declared further down the same block: a
\* build that keeps block scoping throws a ReferenceError there, a build that
\* lowers const to var reads prev[undefined] (undefined) and carries on.
HandMissing(L, shoulder, build) ==
  IF build = "const"
  THEN SideResult(L, Undefined, Undefined, Undefined, TRUE)
  ELSE SideResult(
         [L EXCEPT !.hand = Some(Point(shoulder.x, shoulder.y)),
                   !.DistToShoulder = Some(0)],
         Some(Debug(<< <<"hand keypoint missing">> >>, 0, 0, 0, FALSE, FALSE,
                    0, 0, 0, 0, FALSE)),
         Undefined, Undefined, FALSE)

\* The reasons list of the diagnostics.
Reasons(punchActive, rangeEnough, movingForward, speedFwd, speedThreshold, distToShoulder, triggerDist, extensionRange, norm) ==
  LET gates ==
        IF punchActive THEN << <<"Punch active - retract to reset">> >>
        ELSE (IF ~rangeEnough
              THEN << <<"Range", RDiv(extensionRange * 100, norm), 6>> >>
              ELSE << >>)
          \o (IF ~movingForward THEN << <<"Not moving forward">> >> ELSE << >>)
          \o (IF speedFwd < speedThreshold
              THEN << <<"Speed", RDiv(speedFwd, 10), RDiv(speedThreshold, 10)>> >>
              ELSE << >>)
          \o (IF distToShoulder < triggerDist
              THEN << <<"Need more reach">> >> ELSE << >>)
  IN IF gates = << >> THEN << <<"Ready to strike">> >> ELSE gates

Completion(distToShoulder, rest, triggerDist, movingForward, speedFwd) ==
  LET triggerDelta == triggerDist - rest
  IN IF ~movingForward /\ speedFwd < 100 THEN 0
     ELSE IF triggerDelta > 0
          THEN Max(0, Min(1000, RDiv((distToShoulder - rest) * 1000, triggerDelta)))
          ELSE 0

Classified(L, cur, distToShoulder, rest0, maxExt0, speed, speedFwd, deltaDist, gate1000) ==
  [cur |-> cur, distToShoulder |-> distToShoulder, rest0 |-> rest0,
   maxExt0 |-> maxExt0, speed |-> speed, speedFwd |-> speedFwd,
   deltaDist |-> deltaDist,
   movingForward |-> MovingForward(speedFwd, deltaDist, gate1000, L.RangeNorm),
   movingBackward |-> MovingBackward(speedFwd, deltaDist, gate1000)]

\* Speeds and classification, given the filtered position and its distance.
KinematicsAt(L, cur, prevFiltered, sh, distToShoulder, norm, deltaMs) ==
  LET rest0 == Nullish(L.RestExtension, distToShoulder)
      maxExt0 == Nullish(L.MaxExtension, distToShoulder)
      hyp == Hypot(cur.x - sh.x, cur.y - sh.y)
      outwardLen == IF hyp = 0 THEN 100 ELSE hyp
      proj == RDiv((cur.x - prevFiltered.x) * (cur.x - sh.x)
                     + (cur.y - prevFiltered.y) * (cur.y - sh.y), outwardLen)
      deltaDist == IF L.DistToShoulder # Undefined
                   THEN distToShoulder - L.DistToShoulder[1] ELSE 0
  IN Classified(L, cur, distToShoulder, rest0, maxExt0,
                SpeedOf(distance(cur, prevFiltered), norm, deltaMs),
                SpeedOf(Max(0, proj), norm, deltaMs),
                deltaDist, ForwardGate1000(norm, maxExt0, rest0))

AdaptAt(noise, rest, maxExt, norm) ==
  [noise |-> noise, rest |-> rest, maxExt |-> maxExt,
   extensionRange |-> ExtensionRange(maxExt, rest, norm)]

\* The kinematics of a side this frame: filtered position, distance to the
\* shoulder, raw and forward speed, and the forward/backward classification.
Kinematics(L, hand, shoulder, norm, deltaMs) ==
  LET curRaw == Point(hand.x, hand.y)
      prevFiltered ==
        IF L.Filtered # Undefined THEN L.Filtered[1]
        ELSE IF L.hand # Undefined THEN L.hand[1] ELSE curRaw
      cur == Smooth(prevFiltered, curRaw)
      sh == Point(shoulder.x, shoulder.y)
  IN KinematicsAt(L, cur, prevFiltered, sh, distance(cur, sh), norm, deltaMs)

\* The state a side keeps on every frame that tracks it, stable or not.
Seen(L, k) ==
  [L EXCEPT !.Filtered = Some(k.cur),
            !.SpeedHistory = PushSpeed(@, k.speed),
            !.hand = Some(k.cur),
            !.DistToShoulder = Some(k.distToShoulder)]

\* if (!torsoStable) { ... continue; }
Unstable(L, k, norm) ==
  SideResult(
    Seen(L, k),
    Some(Debug(<< <<"torso moving - hold steady">> >>, 0, k.speedFwd, 600,
               FALSE, FALSE, Nullish(L.RangeNorm, 0),
               Normalized(k.distToShoulder, norm), 0,
               Normalized(k.rest0, norm), L.PunchDetected)),
    Undefined, Undefined, FALSE)

\* Noise estimate, rest and max extension, and the range they give.
Adapt(L, k, norm) ==
  LET noise == RDiv(Nullish(L.NoiseSpeed, 50) * 9 + k.speed, 10)
      rest == RestUpdate(k.rest0, k.distToShoulder, k.movingForward,
                         k.speedFwd, noise)
  IN AdaptAt(noise, rest,
             MaxUpdate(k.maxExt0, rest, k.distToShoulder, k.movingForward,
                       norm),
             norm)

\* The thresholds and the entry / exit decisions of the strike detector.
Detect(L, k, a, norm, now) ==
  LET speedThreshold == SpeedThreshold(a.extensionRange, norm)
      triggerDist == TriggerDist(a.rest, a.extensionRange, norm)
      resetDist == ResetDist(a.rest, a.extensionRange)
      rangeEnough == RangeEnough(a.extensionRange, norm)
  IN [punchActive |-> L.PunchDetected,
      rangeEnough |-> rangeEnough,
      speedThreshold |-> speedThreshold,
      triggerDist |-> triggerDist,
      resetDist |-> resetDist,
      currentPower |-> CurrentPower(k.speedFwd, k.distToShoulder, norm),
      inCooldown |-> InCooldown(L.CooldownUntil, now),
      entry |-> PunchEntry(L.PunchDetected, InCooldown(L.CooldownUntil, now),
                           rangeEnough, k.movingForward, k.speedFwd,
                           speedThreshold, k.distToShoulder, triggerDist),
      exit |-> PunchExit(L.PunchDetected, k.movingBackward, k.distToShoulder,
                         resetDist)]

\* The stable part with the exit test applied to the flag the entry just set.
StableEnterAndLeave(L, k, a, g, norm, now) ==
  SideResult(
    [Seen(L, k) EXCEPT
       !.NoiseSpeed = Some(a.noise),
       !.RestExtension = Some(a.rest),
       !.MaxExtension = Some(a.maxExt),
       !.RangeNorm = Some(Normalized(a.extensionRange, norm)),
       !.PunchDetected = IF g.exit \/ g.entry THEN FALSE ELSE @,
       !.CooldownUntil = IF g.entry THEN Some(CooldownAfter(now)) ELSE @],
    Some(Debug(Reasons(g.punchActive, g.rangeEnough, k.movingForward,
                       k.speedFwd, g.speedThreshold, k.distToShoulder,
                       g.triggerDist, a.extensionRange, norm),
               Completion(k.distToShoulder, a.rest, g.triggerDist,
                          k.movingForward, k.speedFwd),
               k.speedFwd, g.speedThreshold, k.movingForward,
               k.movingBackward, Normalized(a.extensionRange, norm),
               Normalized(k.distToShoulder, norm),
               Normalized(g.triggerDist, norm), Normalized(a.rest, norm),
               g.punchActive)),
    Some([lastSpeed |-> k.speedFwd, lastPower |-> g.currentPower]),
    IF g.entry THEN Some([speed |-> k.speedFwd, power |-> g.currentPower])
    ELSE Undefined,
    FALSE)

\* The stable part of the loop body, given its intermediate values.
Stable(L, k, a, g, norm, now) ==
  SideResult(
    [Seen(L, k) EXCEPT
       !.NoiseSpeed = Some(a.noise),
       !.RestExtension = Some(a.rest),
       !.MaxExtension = Some(a.maxExt),
       !.RangeNorm = Some(Normalized(a.extensionRange, norm)),
       !.PunchDetected = IF g.exit THEN FALSE ELSE IF g.entry THEN TRUE ELSE @,
       !.CooldownUntil = IF g.entry THEN Some(CooldownAfter(now)) ELSE @],
    Some(Debug(Reasons(g.punchActive, g.rangeEnough, k.movingForward,
                       k.speedFwd, g.speedThreshold, k.distToShoulder,
                       g.triggerDist, a.extensionRange, norm),
               Completion(k.distToShoulder, a.rest, g.triggerDist,
                          k.movingForward, k.speedFwd),
               k.speedFwd, g.speedThreshold, k.movingForward,
               k.movingBackward, Normalized(a.extensionRange, norm),
               Normalized(k.distToShoulder, norm),
               Normalized(g.triggerDist, norm), Normalized(a.rest, norm),
               g.punchActive)),
    Some([lastSpeed |-> k.speedFwd, lastPower |-> g.currentPower]),
    IF g.entry THEN Some([speed |-> k.speedFwd, power |-> g.currentPower])
    ELSE Undefined,
    FALSE)

StableWith(L, k, a, norm, now) == Stable(L, k, a, Detect(L, k, a, norm, now), norm, now)

TrackWith(L, k, norm, now, torsoStable) ==
  IF ~torsoStable THEN Unstable(L, k, norm)
  ELSE StableWith(L, k, Adapt(L, k, norm), norm, now)

\* The loop body for a side whose hand position is known.
TrackLimb(L, hand, shoulder, norm, deltaMs, now, torsoStable) ==
  TrackWith(L, Kinematics(L, hand, shoulder, norm, deltaMs), norm, now,
            torsoStable)

\* One iteration of the loop over the sides.
LimbStep(L, wrist, elbow, shoulder, norm, deltaMs, now, torsoStable, build) ==
  LET hand == SelectHand(wrist, elbow, L.hand)
  IN IF hand = Undefined THEN HandMissing(L, shoulder, build)
     ELSE TrackLimb(L, hand[1], shoulder, norm, deltaMs, now, torsoStable)


\* The status with the Collecting test inverted.
CalibrationInverted(calibrated, status, leftRange, rightRange) ==
  IF calibrated THEN [calibrated |-> calibrated, status |-> status]
  ELSE IF leftRange > 1800 \/ rightRange > 1800
       THEN [calibrated |-> TRUE, status |-> "complete"]
       ELSE [calibrated |-> calibrated,
             status |-> IF leftRange > 800 \/ rightRange > 800
                        THEN "waiting" ELSE "collecting"]

\* The status recomputed on every frame, the latch never consulted.
CalibrationNoLatch(calibrated, status, leftRange, rightRange) ==
  IF leftRange > 1800 \/ rightRange > 1800
  THEN [calibrated |-> TRUE, status |-> "complete"]
  ELSE [calibrated |-> calibrated,
        status |-> IF leftRange > 800 \/ rightRange > 800
                   THEN "collecting" ELSE "waiting"]

\* -------------------------------------------------------- calibration monitor
\* if (!prev.calibrated) { ... }: the new (calibrated, status) pair.
\* Ranges are in 1/10000.
CalibrationUpdate(calibrated, status, leftRange, rightRange) ==
  IF calibrated THEN [calibrated |-> calibrated, status |-> status]
  ELSE IF leftRange > 1800 \/ rightRange > 1800
       THEN [calibrated |-> TRUE, status |-> "complete"]
       ELSE [calibrated |-> calibrated,
             status |-> IF leftRange > 800 \/ rightRange > 800
                        THEN "collecting" ELSE "waiting"]

\* ------------------------------------------------------------- arbitration
\* potentialPunches.length === 1 ? potentialPunches
\*   : [potentialPunches.reduce((best, current) =>
\*        current.power > best.power ? current : best)]
RECURSIVE Best(_, _)
Best(best, rest) ==
  IF rest = << >> THEN best
  ELSE Best(IF Head(rest).power > best.power THEN Head(rest) ELSE best,
            Tail(rest))

\* Arbitration that keeps every proposal.
ArbitrateAll(potentialPunches) == potentialPunches

Arbitrate(potentialPunches) ==
  IF Len(potentialPunches) = 0 THEN << >>
  ELSE IF Len(potentialPunches) = 1 THEN potentialPunches
  ELSE <<Best(Head(potentialPunches), Tail(potentialPunches))>>

\* ------------------------------------------------------------- persistence
\* JSON.stringify({ t: Date.now(), left, right }) under "punchHistoryV1".
saveHistory(dateNow, leftHistory, rightHistory) ==
  Some([t |-> dateNow, left |-> leftHistory, right |-> rightHistory])

\* 30 * 60 * 1000 ms.
ExpiryMs == 30 * 60 * 1000

\* The expiry test with the age taken for seconds.
FreshSeconds(dateNow, savedAt) == dateNow - savedAt < 30 * 60

\* The expiry test with the boundary on the keeping side.
FreshInclusive(dateNow, savedAt) == dateNow - savedAt <= ExpiryMs

\* The record is used when Date.now() - parsed.t < 30 min.
Fresh(dateNow, savedAt) == dateNow - savedAt < ExpiryMs

\* The hydration effect: the (left, right) histories after mount.
Hydrate(storage, dateNow) ==
  IF storage # Undefined /\ Fresh(dateNow, storage[1].t)
  THEN [left |-> SliceLast(storage[1].left, HISTORY_SIZE),
        right |-> SliceLast(storage[1].right, HISTORY_SIZE)]
  ELSE [left |-> << >>, right |-> << >>]

\* ------------------------------------------------------------ computePunches
\* What the call did, for the properties: which branch ran, norm and the
\* stability verdict, the sides whose stable update ran, the proposals pushed
\* onto potentialPunches, the punches accepted, the exception thrown.
Obs(branch, norm, torsoStable, tracked, proposals, accepted, thrown) ==
  [branch |-> branch, norm |-> norm, torsoStable |-> torsoStable,
   tracked |-> tracked, proposals |-> proposals, accepted |-> accepted,
   thrown |-> thrown]

NoObs == Obs("none", 0, TRUE, {}, << >>, << >>, "none")

\* The sides among r's whose stable update ran (it is what sets the stats).
Tracked(side, r) == IF r.stats = Undefined THEN {} ELSE {side}

\* Early return of the shoulder guard.
ShoulderGuard(E, now, reason) ==
  [state |-> [E EXCEPT !.leftDebug = ShoulderDebug(reason),
                       !.rightDebug = ShoulderDebug(reason),
                       !.prev.t = now],
   obs |-> Obs(reason, 0, TRUE, {}, << >>, << >>, "none")]

\* One side's iteration applied with the stats object rebuilt from scratch.
ApplySideFreshStats(E, side, r) ==
  LET E1 == IF side = "left" THEN [E EXCEPT !.prev.left = r.limb]
            ELSE [E EXCEPT !.prev.right = r.limb]
      E2 == IF r.debug = Undefined THEN E1
            ELSE IF side = "left" THEN [E1 EXCEPT !.leftDebug = r.debug[1]]
            ELSE [E1 EXCEPT !.rightDebug = r.debug[1]]
  IN IF r.stats = Undefined THEN E2
     ELSE IF side = "left"
          THEN [E2 EXCEPT !.leftStats = [total |-> 0, lastSpeed |-> r.stats[1].lastSpeed, lastPower |-> r.stats[1].lastPower, lastPercent |-> 0]]
          ELSE [E2 EXCEPT !.rightStats = [total |-> 0, lastSpeed |-> r.stats[1].lastSpeed, lastPower |-> r.stats[1].lastPower, lastPercent |-> 0]]

\* E with one side's loop iteration applied.
ApplySide(E, side, r) ==
  LET E1 == IF side = "left" THEN [E EXCEPT !.prev.left = r.limb]
            ELSE [E EXCEPT !.prev.right = r.limb]
      E2 == IF r.debug = Undefined THEN E1
            ELSE IF side = "left" THEN [E1 EXCEPT !.leftDebug = r.debug[1]]
            ELSE [E1 EXCEPT !.rightDebug = r.debug[1]]
  IN IF r.stats = Undefined THEN E2
     ELSE IF side = "left"
          THEN [E2 EXCEPT !.leftStats.lastSpeed = r.stats[1].lastSpeed,
                          !.leftStats.lastPower = r.stats[1].lastPower]
          ELSE [E2 EXCEPT !.rightStats.lastSpeed = r.stats[1].lastSpeed,
                          !.rightStats.lastPower = r.stats[1].lastPower]

\* The punch record pushed for a side.
Proposal(side, r) ==
  IF r.punch = Undefined THEN << >>
  ELSE << [side |-> side, speed |-> r.punch[1].speed,
           power |-> r.punch[1].power] >>

\* The accept body with the score taken before the push.
AcceptPunchScoreFirst(E, punch, wrist, shoulder, dateNow) ==
  LET distToShoulder == distance(Point(wrist.x, wrist.y),
                                 Point(shoulder.x, shoulder.y))
  IN IF punch.side = "left"
     THEN LET hist == PushBounded(E.leftHistory, punch.power)
          IN [E EXCEPT
                !.leftHistory = hist,
                !.localStorage = saveHistory(dateNow, hist, E.rightHistory),
                !.leftStats = [total |-> @.total + 1,
                               lastSpeed |-> punch.speed,
                               lastPower |-> punch.power,
                               lastPercent |->
                                 computePercent(punch.power, E.leftHistory)],
                !.prev.left.MaxExtension =
                   Some(Max(Nullish(@, 0), distToShoulder))]
     ELSE LET hist == PushBounded(E.rightHistory, punch.power)
          IN [E EXCEPT
                !.rightHistory = hist,
                !.localStorage = saveHistory(dateNow, E.leftHistory, hist),
                !.rightStats = [total |-> @.total + 1,
                                lastSpeed |-> punch.speed,
                                lastPower |-> punch.power,
                                lastPercent |->
                                  computePercent(punch.power, E.rightHistory)],
                !.prev.right.MaxExtension =
                   Some(Max(Nullish(@, 0), distToShoulder))]

\* The body of "for (const punch of punches)" for an accepted punch whose
\* wrist keypoint is present: push, save, score, count, raise max.
AcceptPunch(E, punch, wrist, shoulder, dateNow) ==
  LET distToShoulder == distance(Point(wrist.x, wrist.y),
                                 Point(shoulder.x, shoulder.y))
  IN IF punch.side = "left"
     THEN LET hist == PushBounded(E.leftHistory, punch.power)
          IN [E EXCEPT
                !.leftHistory = hist,
                !.localStorage = saveHistory(dateNow, hist, E.rightHistory),
                !.leftStats = [total |-> @.total + 1,
                               lastSpeed |-> punch.speed,
                               lastPower |-> punch.power,
                               lastPercent |-> computePercent(punch.power, hist)],
                !.prev.left.MaxExtension =
                   Some(Max(Nullish(@, 0), distToShoulder))]
     ELSE LET hist == PushBounded(E.rightHistory, punch.power)
          IN [E EXCEPT
                !.rightHistory = hist,
                !.localStorage = saveHistory(dateNow, E.leftHistory, hist),
                !.rightStats = [total |-> @.total + 1,
                                lastSpeed |-> punch.speed,
                                lastPower |-> punch.power,
                                lastPercent |-> computePercent(punch.power, hist)],
                !.prev.right.MaxExtension =
                   Some(Max(Nullish(@, 0), distToShoulder))]

\* for (const punch of punches) { ... }: the state after the loop, the
\* punches it accepted, and whether it threw.  Reading lw.x / rw.x of a wrist
\* keypoint that is absent throws a TypeError before anything is pushed.
RECURSIVE AcceptLoop(_, _, _, _, _, _, _, _)
AcceptLoop(E, punches, accepted, lw, rw, ls, rs, dateNow) ==
  IF punches = << >>
  THEN [state |-> E, accepted |-> accepted, thrown |-> FALSE]
  ELSE LET punch == Head(punches)
           wrist == IF punch.side = "left" THEN lw ELSE rw
           shoulder == IF punch.side = "left" THEN ls ELSE rs
       IN IF wrist = Undefined
          THEN [state |-> E, accepted |-> accepted, thrown |-> TRUE]
          ELSE AcceptLoop(AcceptPunch(E, punch, wrist[1], shoulder, dateNow),
                          Tail(punches), Append(accepted, punch),
                          lw, rw, ls, rs, dateNow)

\* The calibration block, on the ranges stored in prev.
Calibrate(E) ==
  LET c == CalibrationUpdate(E.prev.calibrated, E.calibrationStatus,
                             Nullish(E.prev.left.RangeNorm, 0),
                             Nullish(E.prev.right.RangeNorm, 0))
  IN [E EXCEPT !.prev.calibrated = c.calibrated,
               !.calibrationStatus = c.status]

\* The end of the call: the accepted punches are folded in, prev.t is set
\* unless the accept loop threw.
Conclude(A, tracked, potentialPunches, norm, torsoStable, now) ==
  IF A.thrown
  THEN [state |-> A.state,
        obs |-> Obs("processed", norm, torsoStable, tracked, potentialPunches,
                    A.accepted, "TypeError")]
  ELSE [state |-> [A.state EXCEPT !.prev.t = now],
        obs |-> Obs("processed", norm, torsoStable, tracked, potentialPunches,
                    A.accepted, "none")]

\* After the loop over the sides: calibration, arbitration, accepted punches.
AfterSides(E, tracked, potentialPunches, kp, norm, torsoStable, now, dateNow) ==
  Conclude(AcceptLoop(Calibrate(E), Arbitrate(potentialPunches), << >>,
                      kp.lw, kp.rw, kp.ls[1], kp.rs[1], dateNow),
           tracked, potentialPunches, norm, torsoStable, now)

\* The right side's iteration and what follows it.
AfterRight(E1, tracked, left, R, kp, norm, torsoStable, now, dateNow) ==
  IF R.thrown
  THEN [state |-> E1,
        obs |-> Obs("processed", norm, torsoStable, tracked, left, << >>,
                    "ReferenceError")]
  ELSE AfterSides(ApplySide(E1, "right", R), tracked \cup Tracked("right", R),
                  left \o Proposal("right", R), kp, norm, torsoStable, now,
                  dateNow)

\* The left side's iteration and what follows it.
AfterLeft(E0, L, kp, norm, torsoStable, deltaMs, now, dateNow, build) ==
  IF L.thrown
  THEN [state |-> E0,
        obs |-> Obs("processed", norm, torsoStable, {}, << >>, << >>,
                    "ReferenceError")]
  ELSE AfterRight(ApplySide(E0, "left", L), Tracked("left", L),
                  Proposal("left", L),
                  LimbStep(E0.prev.right, kp.rw, kp.re, kp.rs[1], norm,
                           deltaMs, now, torsoStable, build),
                  kp, norm, torsoStable, now, dateNow)

\* The call past the shoulder guard, given norm and the stability verdict.
Process(E, kp, norm, torsoStable, now, dateNow, build) ==
  AfterLeft([E EXCEPT !.prev.prevLeftShoulder = Some(Point(kp.ls[1].x, kp.ls[1].y)),
                      !.prev.prevRightShoulder = Some(Point(kp.rs[1].x, kp.rs[1].y))],
            LimbStep(E.prev.left, kp.lw, kp.le, kp.ls[1], norm,
                     DeltaMs(E.prev.t, now), now, torsoStable, build),
            kp, norm, torsoStable, DeltaMs(E.prev.t, now), now, dateNow, build)

Measure(E, kp, leftShoulderPt, rightShoulderPt, norm, now, dateNow, build) ==
  Process(E, kp, norm,
          TorsoStable(leftShoulderPt, rightShoulderPt,
                      Nullish(E.prev.prevLeftShoulder, leftShoulderPt),
                      Nullish(E.prev.prevRightShoulder, rightShoulderPt), norm),
          now, dateNow, build)

\* The six keypoints computePunches looks up.
Keypoints(keypoints) ==
  [ls |-> getKeypoint(keypoints, "left_shoulder"),
   rs |-> getKeypoint(keypoints, "right_shoulder"),
   lw |-> getKeypoint(keypoints, "left_wrist"),
   rw |-> getKeypoint(keypoints, "right_wrist"),
   le |-> getKeypoint(keypoints, "left_elbow"),
   re |-> getKeypoint(keypoints, "right_elbow")]

\* The guard without its confidence test.
GuardedMissingOnly(E, kp, now, dateNow, build) ==
  IF kp.ls = Undefined \/ kp.rs = Undefined
  THEN ShoulderGuard(E, now, "shoulders missing")
  ELSE Measure(E, kp, Point(kp.ls[1].x, kp.ls[1].y),
               Point(kp.rs[1].x, kp.rs[1].y),
               Norm(Point(kp.ls[1].x, kp.ls[1].y),
                    Point(kp.rs[1].x, kp.rs[1].y)),
               now, dateNow, build)

Guarded(E, kp, now, dateNow, build) ==
  IF kp.ls = Undefined \/ kp.rs = Undefined
  THEN ShoulderGuard(E, now, "shoulders missing")
  ELSE IF kp.ls[1].score < minShoulderScore \/ kp.rs[1].score < minShoulderScore
  THEN ShoulderGuard(E, now, "low shoulder confidence")
  ELSE Measure(E, kp, Point(kp.ls[1].x, kp.ls[1].y),
               Point(kp.rs[1].x, kp.rs[1].y),
               Norm(Point(kp.ls[1].x, kp.ls[1].y),
                    Point(kp.rs[1].x, kp.rs[1].y)),
               now, dateNow, build)

\* computePunches(pose) at performance.now() = now, Date.now() = dateNow.
\* E is the component's state; the result is the state after the call
\* (whether it returned or threw) and what the call did.
ComputePunches(E, now, dateNow, keypoints, build) ==
  Guarded(E, Keypoints(keypoints), now, dateNow, build)

\* ------------------------------------------------------------------ inputs
\* The poses of a run are drawn from small sets, fixed per run by its scene.
\* All keypoints lie on one horizontal line: the base shoulders are 100 px
\* apart, a left hand at reach d is d to the left of the base left shoulder,
\* a right hand d to the right of the base right shoulder.
Kp(x, y, score) == Some([x |-> x, y |-> y, score |-> score])

Shoulders(option) ==
  CASE option = "base" ->
         [left |-> Kp(10000, 5000, 90), right |-> Kp(20000, 5000, 90)]
    [] option = "shifted" ->
         [left |-> Kp(11000, 5000, 90), right |-> Kp(21000, 5000, 90)]
    [] option = "missing" ->
         [left |-> Kp(10000, 5000, 90), right |-> Undefined]
    [] option = "lowconf" ->
         [left |-> Kp(10000, 5000, 10), right |-> Kp(20000, 5000, 90)]
    [] option = "edge" ->
         [left |-> Kp(10000, 5000, 90), right |-> Kp(20000, 5000, 15)]
    [] option = "none" ->
         [left |-> Undefined, right |-> Undefined]

\* A hand input: the wrist seen at the reach, the wrist absent and the elbow
\* at the reach, the wrist present with score 0 (at a stray position, 10 px
\* from the shoulder) and the elbow at the reach, the wrist present with
\* score 0 and no elbow, or neither keypoint.
HandAt(kind, reach) == [kind |-> kind, reach |-> reach]

HandX(side, reach) == IF side = "left" THEN 10000 - reach ELSE 20000 + reach

Wrist(side, h) ==
  CASE h.kind = "wrist" -> Kp(HandX(side, h.reach), 5000, 90)
    [] h.kind = "lowwrist" -> Kp(HandX(side, 1000), 5000, 0)
    [] h.kind = "lowonly" -> Kp(HandX(side, 1000), 5000, 0)
    [] OTHER -> Undefined

Elbow(side, h) ==
  CASE h.kind = "wrist" -> Kp(HandX(side, h.reach \div 2), 5000, 90)
    [] h.kind = "lowwrist" -> Kp(HandX(side, h.reach), 5000, 90)
    [] h.kind = "elbow" -> Kp(HandX(side, h.reach), 5000, 90)
    [] OTHER -> Undefined

Pose(shoulders, leftHand, rightHand) ==
  [left_shoulder |-> Shoulders(shoulders).left,
   right_shoulder |-> Shoulders(shoulders).right,
   left_wrist |-> Wrist("left", leftHand),
   right_wrist |-> Wrist("right", rightHand),
   left_elbow |-> Elbow("left", leftHand),
   right_elbow |-> Elbow("right", rightHand)]

\* No pose yet: no keypoint of the six.
NoPose ==
  [left_shoulder |-> Undefined, right_shoulder |-> Undefined,
   left_wrist |-> Undefined, right_wrist |-> Undefined,
   left_elbow |-> Undefined, right_elbow |-> Undefined]

\* Date.now() when performance.now() is 0.
TimeOrigin == 100000000

\* The "punchHistoryV1" record an earlier session saved ageMs before this
\* mount, its histories being left and right.
Stored(ageMs, left, right) == saveHistory(TimeOrigin - ageMs, left, right)

\* n powers 0.100, 0.110, ...: a history in insertion order.
Ramp(n) == [i \in 1..n |-> 90 + 10 * i]

Scenes ==
  {"spar", "calibrate", "shaky", "guard", "occluded", "onearm", "seeded",
   "nudge"}

SceneShoulders(scene) ==
  CASE scene = "shaky" -> {"base", "shifted", "missing", "lowconf"}
    [] scene = "guard" -> {"edge", "lowconf", "none"}
    [] scene = "occluded" -> {"base", "shifted"}
    [] OTHER -> {"base"}

SceneLeft(scene) ==
  CASE scene = "calibrate" ->
         {HandAt("wrist", 3000), HandAt("wrist", 7500), HandAt("wrist", 16000)}
    [] scene = "occluded" ->
         {HandAt("wrist", 3000), HandAt("elbow", 9000),
          HandAt("lowwrist", 9000), HandAt("lowonly", 0), HandAt("none", 0)}
    [] scene = "onearm" -> {HandAt("wrist", 3000), HandAt("wrist", 7500)}
    [] scene = "nudge" -> {HandAt("wrist", 3000), HandAt("wrist", 6000)}
    [] OTHER -> {HandAt("wrist", 3000), HandAt("wrist", 9000)}

SceneRight(scene) ==
  CASE scene = "spar" ->
         {HandAt("wrist", 3000), HandAt("wrist", 7500), HandAt("wrist", 9000)}
    [] scene = "onearm" ->
         {HandAt("wrist", 3000), HandAt("elbow", 9000), HandAt("none", 0)}
    [] scene = "nudge" -> {HandAt("wrist", 3000), HandAt("wrist", 6000)}
    [] OTHER -> {HandAt("wrist", 3000)}

SceneDeltas(scene) ==
  CASE scene = "spar" -> {100, 150}
    [] scene = "calibrate" -> {500, 1000}
    [] scene = "seeded" -> {150}
    [] OTHER -> {100}

SceneBuilds(scene) ==
  IF scene = "occluded" \/ scene = "onearm" THEN {"const", "var"}
  ELSE {"const"}

SceneStorage(scene) ==
  IF scene = "seeded"
  THEN {Stored(10 * 60 * 1000, <<400, 600, 900>>, << >>),
        Stored(31 * 60 * 1000, <<400, 600, 900>>, <<500>>),
        Stored(30 * 60 * 1000, <<400, 600, 900>>, <<500>>),
        Stored(30 * 60 * 1000 - 1, Ramp(49), <<500>>),
        Stored(60 * 1000, Ramp(50), Ramp(52))}
  ELSE {Undefined}

\* ------------------------------------------------------------ workout timer
\* A Workout, as far as buildSegments reads it.  A round is its number; the
\* texts r.work and r.moderate are the pairs <<"work", n>>, <<"moderate", n>>.
Round(n) == [round |-> n, work |-> <<"work", n>>, moderate |-> <<"moderate", n>>]

Workout(rounds, sets, workDur, modDur, rest) ==
  [workout_structure |->
     [sets_per_round |-> sets, work_interval_sec |-> workDur,
      moderate_interval_sec |-> modDur,
      rounds |-> [n \in 1..rounds |-> Round(n)]],
   rest_between_rounds_sec |-> rest]

\* WORKOUT_DATA: six rounds of three sets, 60 s work, 30 s moderate, 15 s rest.
WORKOUT_DATA == Workout(6, 3, 60, 30, 15)

Segment(roundIndex, setIndex, phase, duration, label) ==
  [roundIndex |-> roundIndex, setIndex |-> setIndex, phase |-> phase,
   duration |-> duration, label |-> label]

\* for (let s = 0; s < sets; s++) { push work; push moderate }, from set s on.
RECURSIVE SetSegments(_, _, _, _)
SetSegments(d, r, rIdx, s) ==
  IF s >= d.workout_structure.sets_per_round THEN << >>
  ELSE << Segment(rIdx, s, "work", d.workout_structure.work_interval_sec,
                  r.work),
          Segment(rIdx, s, "moderate",
                  d.workout_structure.moderate_interval_sec, r.moderate) >>
       \o SetSegments(d, r, rIdx, s + 1)

\* The rest pushed after every round, the last one included.
RestSegmentsAlways(d, rIdx) ==
  << Segment(rIdx, d.workout_structure.sets_per_round - 1, "rest",
             d.rest_between_rounds_sec,
             <<"Rest", d.rest_between_rounds_sec, rIdx + 2>>) >>

\* if (rIdx < rounds.length - 1) push rest
RestSegments(d, rIdx) ==
  IF rIdx < Len(d.workout_structure.rounds) - 1
  THEN << Segment(rIdx, d.workout_structure.sets_per_round - 1, "rest",
                  d.rest_between_rounds_sec,
                  <<"Rest", d.rest_between_rounds_sec, rIdx + 2>>) >>
  ELSE << >>

\* rounds.forEach((r, rIdx) => { ... }), from index rIdx on.
RECURSIVE RoundSegments(_, _)
RoundSegments(d, rIdx) ==
  IF rIdx >= Len(d.workout_structure.rounds) THEN << >>
  ELSE SetSegments(d, d.workout_structure.rounds[rIdx + 1], rIdx, 0)
       \o RestSegments(d, rIdx)
       \o RoundSegments(d, rIdx + 1)

\* buildSegments: the 20 s prepare segment, then the rounds.
buildSegments(d) ==
  << Segment(0, 0, "prepare", 20,
             <<"Get Ready", d.workout_structure.rounds[1].work>>) >>
  \o RoundSegments(d, 0)

\* ------------------------------------------------------------------- state
VARIABLES
  prev,               \* prevRef.current
  leftStats, rightStats,
  calibrationStatus,  \* calibrationStatusRef.current and the React state
  leftDebug, rightDebug,
  leftHistory, rightHistory,  \* leftHistoryRef.current, rightHistoryRef.current
  localStorage,       \* the "punchHistoryV1" item
  build,              \* how the build treats the early read of a const
  scene,              \* the input sets of this run
  mounted,            \* the hydration effect has run
  now,                \* performance.now() of the last frame
  frames,             \* frames processed so far
  pose,               \* the keypoints handed to the last computePunches call
  obs,                \* what the last computePunches call did
  statusBefore,       \* calibrationStatus before that call
  lastStrike,         \* per side, performance.now() of its last raised strike
  seeded,             \* per side, the entries the hydration effect loaded
  lastAccepted,       \* per side, the power of its last accepted strike
  sample,             \* the array handed to a percentile call made on its own
  ranked,             \* what that call returned
  data,               \* the Workout handed to buildSegments
  segments,           \* WorkoutTimer's segments (undefined until built)
  idx, remaining, running,  \* WorkoutTimer's committed state
  idxRef,             \* idxRef.current
  lastTickRef,        \* lastTickRef.current has been set
  sinceTick,          \* seconds since lastTickRef.current was written
  ranSinceTick,       \* of those, the seconds the timer was running
  rafRef,             \* a tick callback is registered
  queue,              \* state updates enqueued and not yet rendered
  passive,            \* the effects of the last commit have not run yet
  applied,            \* the updates this step's commit applied, in order
  camPrev,            \* CameraPage's prevRef.current
  camStats,           \* CameraPage's leftStats and rightStats, by side
  camNow,             \* performance.now() of CameraPage's last frame
  camFrames,          \* frames CameraPage's loop has handled
  camPose,            \* the pose of its last frame
  camCounted          \* per side, performance.now() of its last counted punch

vars == <<prev, leftStats, rightStats, calibrationStatus, leftDebug,
          rightDebug, leftHistory, rightHistory, localStorage, build, scene,
          mounted, now, frames, pose, obs, statusBefore, lastStrike,
          seeded, lastAccepted, sample, ranked, data, segments, idx,
          remaining, running, idxRef, lastTickRef, sinceTick, ranSinceTick,
          rafRef, queue, passive, applied, camPrev, camStats, camNow,
          camFrames, camPose, camCounted>>

\* The variables of the workout timer component.
timerVars == <<data, segments, idx, remaining, running, idxRef, lastTickRef, sinceTick, ranSinceTick, rafRef, queue, passive, applied>>

\* The variables of the standalone camera page.
cameraVars == <<camPrev, camStats, camNow, camFrames, camPose, camCounted>>

\* A side's part of CameraPage's prevRef.current: nothing cached yet.
NewCamLimb == [wrist |-> Undefined, DistToShoulder |-> Undefined, CooldownUntil |-> Undefined]

\* A pose without the keypoints computePunches reads.
NoCamPose == [left_shoulder |-> Undefined, right_shoulder |-> Undefined, left_wrist |-> Undefined, right_wrist |-> Undefined]

\* CameraPage at its first render: useState totals of 0, prevRef { t: 0 }.
CameraConstructed ==
  /\ camPrev = [t |-> 0, left |-> NewCamLimb, right |-> NewCamLimb]
  /\ camStats = [side \in {"left", "right"} |-> [total |-> 0, lastSpeed |-> 0, lastPower |-> 0]]
  /\ camNow = 0
  /\ camFrames = 0
  /\ camPose = NoCamPose
  /\ camCounted = [side \in {"left", "right"} |-> Undefined]

\* The timer's state at its first render: useState(-1), useState(0),
\* useState(false), the refs at their initial values, nothing enqueued.
TimerConstructed ==
  /\ idx = -1
  /\ remaining = 0
  /\ running = FALSE
  /\ idxRef = -1
  /\ lastTickRef = FALSE
  /\ sinceTick = 0
  /\ ranSinceTick = 0
  /\ rafRef = FALSE
  /\ queue = << >>
  /\ passive = FALSE
  /\ applied = << >>

\* The timer component is not on the page.
TimerUnused ==
  /\ data = WORKOUT_DATA
  /\ segments = Undefined
  /\ TimerConstructed
  /\ CameraConstructed

\* The component's state as one value.
Engine ==
  [prev |-> prev, leftStats |-> leftStats, rightStats |-> rightStats,
   calibrationStatus |-> calibrationStatus, leftDebug |-> leftDebug,
   rightDebug |-> rightDebug, leftHistory |-> leftHistory,
   rightHistory |-> rightHistory, localStorage |-> localStorage]

NewPrev ==
  [t |-> 0, left |-> NewLimb, right |-> NewLimb,
   prevLeftShoulder |-> Undefined, prevRightShoulder |-> Undefined,
   calibrated |-> FALSE]

\* The page after construction, before the hydration effect has run.
Constructed ==
  /\ scene \in Scenes
  /\ build \in SceneBuilds(scene)
  /\ localStorage \in SceneStorage(scene)
  /\ prev = NewPrev
  /\ leftStats = NewStats
  /\ rightStats = NewStats
  /\ calibrationStatus = "waiting"
  /\ leftDebug = emptyDebug
  /\ rightDebug = emptyDebug
  /\ leftHistory = << >>
  /\ rightHistory = << >>
  /\ mounted = FALSE
  /\ now = 1000
  /\ frames = 0
  /\ pose = NoPose
  /\ obs = NoObs
  /\ statusBefore = "waiting"
  /\ lastStrike = [side \in {"left", "right"} |-> 0]
  /\ seeded = [side \in {"left", "right"} |-> 0]
  /\ lastAccepted = [side \in {"left", "right"} |-> Undefined]

Init ==
  /\ Constructed
  /\ sample = << >>
  /\ ranked = Undefined
  /\ TimerUnused

\* The hydration effect, run once at mount, before the first frame.
Mount ==
  /\ ~mounted
  /\ mounted' = TRUE
  /\ LET h == Hydrate(localStorage, TimeOrigin)
     IN /\ leftHistory' = h.left
        /\ rightHistory' = h.right
        /\ seeded' = [side \in {"left", "right"} |-> Len(h[side])]
  /\ UNCHANGED <<prev, leftStats, rightStats, calibrationStatus, leftDebug,
                 rightDebug, localStorage, build, scene, now, frames, pose,
                 obs, statusBefore, lastStrike, lastAccepted, sample, ranked>>
  /\ UNCHANGED <<timerVars, cameraVars>>

Sides(punches) == {punches[i].side : i \in 1..Len(punches)}

\* The power of the side's punch among the punches.
PowerOf(side, punches) ==
  (CHOOSE punch \in {punches[i] : i \in 1..Len(punches)} :
     punch.side = side).power

\* One pass of the detection loop that reaches computePunches.
Frame ==
  /\ mounted
  /\ frames < MaxFrames
  /\ \E delta \in SceneDeltas(scene), sh \in SceneShoulders(scene),
        lh \in SceneLeft(scene), rh \in SceneRight(scene) :
     \E t \in {now + delta}, keypoints \in {Pose(sh, lh, rh)} :
     \E r \in {ComputePunches(Engine, t, TimeOrigin + t, keypoints, build)} :
          /\ now' = t
          /\ prev' = r.state.prev
          /\ leftStats' = r.state.leftStats
          /\ rightStats' = r.state.rightStats
          /\ calibrationStatus' = r.state.calibrationStatus
          /\ leftDebug' = r.state.leftDebug
          /\ rightDebug' = r.state.rightDebug
          /\ leftHistory' = r.state.leftHistory
          /\ rightHistory' = r.state.rightHistory
          /\ localStorage' = r.state.localStorage
          /\ pose' = keypoints
          /\ obs' = r.obs
          /\ statusBefore' = calibrationStatus
          /\ lastStrike' = [side \in {"left", "right"} |->
                              IF side \in Sides(r.obs.proposals) THEN t
                              ELSE lastStrike[side]]
          /\ lastAccepted' = [side \in {"left", "right"} |->
                                IF side \in Sides(r.obs.accepted)
                                THEN Some(PowerOf(side, r.obs.accepted))
                                ELSE lastAccepted[side]]
  /\ frames' = frames + 1
  /\ UNCHANGED <<build, scene, mounted, seeded, sample, ranked>>
  /\ UNCHANGED <<timerVars, cameraVars>>

Next == Mount \/ Frame

Spec == Init /\ [][Next]_vars

\* ------------------------------------------------- percentile on its own
\* Largest array percentile is handed: a full history.
MaxSample == 50

\* Power histories of every length 1..MaxSample, unsorted, with values that
\* differ pairwise (i * k mod 101 is one-to-one on 1..100 for k = 37, 41),
\* and with every value equal.
Samples ==
  UNION {{[i \in 1..n |-> 400 + ((i * 37) % 101)],
          [i \in 1..n |-> 400 + ((i * 41) % 101)],
          [i \in 1..n |-> 700]} : n \in 1..MaxSample}

InitPercentile ==
  /\ Constructed
  /\ scene = "spar"
  /\ sample \in Samples
  /\ ranked = Undefined
  /\ TimerUnused

\* percentile(hist, PERCENTILE), as computePercent calls it.
Percentile ==
  /\ ranked = Undefined
  /\ ranked' = Some(percentile(sample, PERCENTILE))
  /\ UNCHANGED <<prev, leftStats, rightStats, calibrationStatus, leftDebug,
                 rightDebug, leftHistory, rightHistory, localStorage, build,
                 scene, mounted, now, frames, pose, obs, statusBefore,
                 lastStrike, seeded, lastAccepted, sample>>
  /\ UNCHANGED <<timerVars, cameraVars>>

NextPercentile == Percentile

SpecPercentile == InitPercentile /\ [][NextPercentile]_vars

\* ------------------------------------------------------------- properties
\* A step of the loop: one computePunches call.
FrameStep == frames' = frames + 1

Stats(side) == IF side = "left" THEN leftStats ELSE rightStats

History(side) == IF side = "left" THEN leftHistory ELSE rightHistory

DebugOf(side) == IF side = "left" THEN leftDebug ELSE rightDebug

BothSides == {"left", "right"}

OtherSide(side) == IF side = "left" THEN "right" ELSE "left"

\* C1: over one frame the sum of the two totals rises by at most one, and at
\* most one value is pushed onto the left and right histories together.
C1_AtMostOneStrikePerFrame ==
  [][FrameStep =>
       /\ leftStats'.total + rightStats'.total
            <= leftStats.total + rightStats.total + 1
       /\ leftStats'.total >= leftStats.total
       /\ rightStats'.total >= rightStats.total
       /\ leftHistory' = leftHistory \/ rightHistory' = rightHistory
       /\ \A h \in {<<leftHistory, leftHistory'>>,
                    <<rightHistory, rightHistory'>>} :
            \/ h[2] = h[1]
            \/ /\ Len(h[1]) < HISTORY_SIZE
               /\ Len(h[2]) = Len(h[1]) + 1
               /\ SubSeq(h[2], 1, Len(h[1])) = h[1]
            \/ /\ Len(h[1]) = HISTORY_SIZE
               /\ Len(h[2]) = HISTORY_SIZE
               /\ SubSeq(h[2], 1, HISTORY_SIZE - 1) = Tail(h[1])]_vars

\* Both limbs proposed on the last frame and exactly one strike was accepted.
C1_Witness ==
  /\ Len(obs.proposals) = 2
  /\ Len(obs.accepted) = 1
  /\ leftStats.total + rightStats.total >= 1

\* The proposal of the last call with the higher power (the earlier one on a
\* tie, as the reduce keeps best unless current.power > best.power).
Winner(proposals) == Best(Head(proposals), Tail(proposals))

\* What C2 says of a frame on which both limbs proposed.
HigherPowerAccepted ==
  LET win == Winner(obs'.proposals)
      lost == OtherSide(win.side)
      winTotal == IF win.side = "left" THEN leftStats.total
                  ELSE rightStats.total
      lostTotal == IF win.side = "left" THEN rightStats.total
                   ELSE leftStats.total
      winStats == IF win.side = "left" THEN leftStats' ELSE rightStats'
      lostStats == IF win.side = "left" THEN rightStats' ELSE leftStats'
      winHistory == IF win.side = "left" THEN leftHistory' ELSE rightHistory'
      lostHistory == IF win.side = "left" THEN rightHistory ELSE leftHistory
      lostHistoryAfter == IF win.side = "left" THEN rightHistory'
                          ELSE leftHistory'
  IN /\ \A i \in 1..2 : win.power >= obs'.proposals[i].power
     /\ obs'.accepted = <<win>>
     /\ winStats.total = winTotal + 1
     /\ lostStats.total = lostTotal
     /\ winStats.lastPower = win.power
     /\ winStats.lastPercent = computePercent(win.power, winHistory)
     /\ winHistory # << >>
     /\ winHistory[Len(winHistory)] = win.power
     /\ lostHistoryAfter = lostHistory
     /\ prev'[lost].PunchDetected
     /\ prev'[lost].CooldownUntil = Some(now' + 250)

\* C2: when both limbs propose a strike in one frame, only the proposal with
\* the higher power is accepted (counted, scored, pushed to its history); the
\* other limb's proposal is dropped, yet that limb is Active and its
\* cooldownUntil is the frame's now + 250.
C2_HigherPowerAccepted ==
  [][(FrameStep /\ Len(obs'.proposals) = 2) => HigherPowerAccepted]_vars

\* C2 on the frames where computePunches returned: there the statement holds,
\* and a frame where it fails is one whose accept loop threw the TypeError.
C2_WhenReturned ==
  [][(FrameStep /\ Len(obs'.proposals) = 2) =>
       IF obs'.thrown = "none" THEN HigherPowerAccepted
       ELSE obs'.thrown = "TypeError" /\ obs'.accepted = << >>]_vars

\* Waiting, Collecting, Complete in their order.
Rank(status) ==
  CASE status = "waiting" -> 0
    [] status = "collecting" -> 1
    [] status = "complete" -> 2

StoredRange(side) == Nullish(prev[side].RangeNorm, 0)

\* C3: the calibration status only moves forward through Waiting, Collecting,
\* Complete; over any step it never goes backward in that order.
C3_CalibrationMonotone ==
  [][Rank(calibrationStatus') >= Rank(calibrationStatus)]_vars

\* C3, what holds: the calibration status never leaves Complete, and
\* the only backward move is from Collecting to Waiting, made by a frame after
\* which neither limb's stored range exceeds 0.08 while Complete has not been
\* reached.
C3_BackwardOnlyCollectingToWaiting ==
  [][Rank(calibrationStatus') < Rank(calibrationStatus) =>
       /\ calibrationStatus = "collecting"
       /\ calibrationStatus' = "waiting"
       /\ ~prev'.calibrated
       /\ \A side \in BothSides :
            Nullish(prev'[side].RangeNorm, 0) <= 800]_vars

\* The last frame took the status from Collecting back to Waiting.
C3_Witness ==
  /\ statusBefore = "collecting"
  /\ calibrationStatus = "waiting"
  /\ obs.branch = "processed"

\* C4: once the calibration status is Complete it is Complete after every
\* later frame, whatever the ranges decay to and whatever the frame is.
C4_CompleteIsTerminal ==
  [][calibrationStatus = "complete" =>
       calibrationStatus' = "complete" /\ prev'.calibrated]_vars

\* A processed frame that began Complete and after which neither stored range
\* exceeds the 0.18 that Complete was reached with.
C4_Witness ==
  /\ statusBefore = "complete"
  /\ calibrationStatus = "complete"
  /\ obs.branch = "processed"
  /\ obs.thrown = "none"
  /\ \A side \in BothSides : StoredRange(side) <= 1800

\* C5: per limb, any two frames on which that limb raises a strike are at
\* least 250 ms apart in frame time.
C5_CooldownBetweenStrikes ==
  [][FrameStep =>
       \A side \in BothSides :
         (side \in Sides(obs'.proposals) /\ lastStrike[side] # 0) =>
           now' - lastStrike[side] >= 250]_vars

\* A limb that struck less than 250 ms ago has exited Active and passes every
\* other entry gate on the last frame, and it raised nothing.
C5_Witness ==
  \E side \in BothSides :
    /\ lastStrike[side] # 0
    /\ now - lastStrike[side] < 250
    /\ side \in obs.tracked
    /\ side \notin Sides(obs.proposals)
    /\ ~DebugOf(side).active
    /\ DebugOf(side).movingForward
    /\ DebugOf(side).rangeNorm >= 600
    /\ DebugOf(side).speed >= DebugOf(side).speedThreshold
    /\ DebugOf(side).extensionNorm >= DebugOf(side).triggerNorm

\* C6: a limb that is Active raises no strike until it has exited Active; a
\* limb that raises a strike is Active after that frame.
C6_Hysteresis ==
  [][FrameStep =>
       \A side \in BothSides :
         /\ prev[side].PunchDetected => side \notin Sides(obs'.proposals)
         /\ side \in Sides(obs'.proposals) => prev'[side].PunchDetected]_vars

\* A limb that was Active before the last frame and stays Active passes every
\* other entry gate, its cooldown over, and it raised nothing.
C6_Witness ==
  \E side \in BothSides :
    /\ lastStrike[side] # 0
    /\ now - lastStrike[side] >= 250
    /\ side \in obs.tracked
    /\ side \notin Sides(obs.proposals)
    /\ prev[side].PunchDetected
    /\ DebugOf(side).active
    /\ DebugOf(side).movingForward
    /\ DebugOf(side).rangeNorm >= 600
    /\ DebugOf(side).speed >= DebugOf(side).speedThreshold
    /\ DebugOf(side).extensionNorm >= DebugOf(side).triggerNorm

\* C7: after every step, whatever the histories hold (persisted ones
\* included), both limbs' lastPercent is an integer from 0 to 150.
C7_PercentInRange ==
  \A side \in BothSides : Stats(side).lastPercent \in 0..150

\* A strike was accepted against a persisted history whose 90th percentile
\* it exceeds by more than half: the unclamped score is over 150.
C7_Witness ==
  /\ Len(obs.accepted) = 1
  /\ LET side == obs.accepted[1].side
         power == obs.accepted[1].power
     IN /\ Len(History(side)) > 1
        /\ power * 100 > 150 * PercentBase(power, History(side))
        /\ Stats(side).lastPercent = 150

\* The sides whose rest and max estimates exist.
Estimated(side) ==
  /\ prev[side].RestExtension # Undefined
  /\ prev[side].MaxExtension # Undefined

\* C8: after every per-limb update, and after the post-strike bump of the
\* max estimate, the stored max is at least the stored rest plus 0.04 of the
\* frame's norm; whenever both are defined the max is above the rest.
C8_MaxAboveRest ==
  \A side \in BothSides :
    /\ Estimated(side) =>
         prev[side].MaxExtension[1] > prev[side].RestExtension[1]
    /\ side \in obs.tracked =>
         /\ Estimated(side)
         /\ (prev[side].MaxExtension[1] - prev[side].RestExtension[1]) * 100
              >= 4 * obs.norm

\* After the first frame: one limb's strike was accepted and its max bumped
\* past its tracked distance, the other limb's max sits on the floor.
C8_Witness ==
  /\ frames >= 2
  /\ Len(obs.accepted) = 1
  /\ LET side == obs.accepted[1].side
         other == OtherSide(side)
     IN /\ prev[side].MaxExtension[1] > prev[side].DistToShoulder[1]
        /\ other \in obs.tracked
        /\ (prev[other].MaxExtension[1] - prev[other].RestExtension[1]) * 100
             = 4 * obs.norm

\* Each history holds at most HISTORY_SIZE values.
HistoryBounded ==
  /\ Len(leftHistory) <= HISTORY_SIZE
  /\ Len(rightHistory) <= HISTORY_SIZE

\* Over a frame an accepted strike appends its power to its side's history,
\* a history that was full losing exactly its oldest value; nothing else
\* changes a history.
FifoEviction ==
  FrameStep =>
    \A side \in BothSides :
      LET before == IF side = "left" THEN leftHistory ELSE rightHistory
          after == IF side = "left" THEN leftHistory' ELSE rightHistory'
      IN IF Sides(obs'.accepted) = {side}
         THEN after = (IF Len(before) = HISTORY_SIZE THEN Tail(before)
                       ELSE before) \o <<obs'.accepted[1].power>>
         ELSE after = before

\* C9: each history holds at most 50 values at all times, also right after a
\* persisted record is loaded; a push onto a full history evicts the oldest
\* value first.
C9_HistoryBoundedFifo == []HistoryBounded /\ [][FifoEviction]_vars

\* A persisted history longer than 50 was loaded on one side; on the other a
\* strike was pushed onto a full history and the oldest value left.
C9_Witness ==
  /\ localStorage # Undefined
  /\ Len(rightHistory) = HISTORY_SIZE
  /\ Len(leftHistory) = HISTORY_SIZE
  /\ Sides(obs.accepted) = {"left"}
  /\ leftHistory[HISTORY_SIZE] = obs.accepted[1].power
  /\ leftHistory[1] = Ramp(HISTORY_SIZE)[2]

\* What C10 says of a processed frame whose shoulders moved too much.
UnstableFrameFrozen ==
  /\ \A side \in BothSides :
       /\ prev'[side].RestExtension = prev[side].RestExtension
       /\ prev'[side].MaxExtension = prev[side].MaxExtension
       /\ prev'[side].RangeNorm = prev[side].RangeNorm
       /\ prev'[side].NoiseSpeed = prev[side].NoiseSpeed
       /\ prev'[side].PunchDetected = prev[side].PunchDetected
       /\ prev'[side].CooldownUntil = prev[side].CooldownUntil
  /\ obs'.proposals = << >>
  /\ obs'.accepted = << >>
  /\ leftStats'.total = leftStats.total
  /\ rightStats'.total = rightStats.total
  /\ leftDebug'.reasons = <<<<"torso moving - hold steady">>>>
  /\ rightDebug'.reasons = <<<<"torso moving - hold steady">>>>

\* A processed frame on which the mean shoulder displacement, over norm, is
\* 0.08 or more.
UnstableFrame ==
  FrameStep /\ obs'.branch = "processed" /\ ~obs'.torsoStable

\* C10: on a frame whose torso is unstable no limb's rest, max, range or
\* noise estimate changes, no Active flag or cooldown changes, no strike is
\* proposed or accepted, and both limbs' diagnostics carry the reason
\* "torso moving - hold steady".
C10_UnstableFrameFreezes == [][UnstableFrame => UnstableFrameFrozen]_vars

\* C10 on the unstable frames where computePunches returned: there the
\* statement holds, and an unstable frame where it fails is one whose
\* hand-missing branch threw the ReferenceError.
C10_WhenReturned ==
  [][UnstableFrame =>
       IF obs'.thrown = "none" THEN UnstableFrameFrozen
       ELSE obs'.thrown = "ReferenceError" /\ build = "const"]_vars

\* The pose of the last call lacks a shoulder keypoint, or has a shoulder
\* whose confidence is below 0.15.
ShouldersUnusable(keypoints) ==
  \/ keypoints.left_shoulder = Undefined
  \/ keypoints.right_shoulder = Undefined
  \/ keypoints.left_shoulder[1].score < 15
  \/ keypoints.right_shoulder[1].score < 15

\* C11: a frame with a shoulder keypoint missing, or with either shoulder's
\* confidence below 0.15, changes only the frame timestamp and the
\* diagnostics: every limb field, both histories, both strike totals and the
\* calibration status are unchanged, no strike is accepted, and both limbs'
\* diagnostics carry the reason "shoulders missing" or "low shoulder
\* confidence".
C11_ShoulderGuardNoOp ==
  [][(FrameStep /\ ShouldersUnusable(pose')) =>
       /\ prev' = [prev EXCEPT !.t = now']
       /\ leftHistory' = leftHistory
       /\ rightHistory' = rightHistory
       /\ localStorage' = localStorage
       /\ leftStats' = leftStats
       /\ rightStats' = rightStats
       /\ calibrationStatus' = calibrationStatus
       /\ obs'.proposals = << >>
       /\ obs'.accepted = << >>
       /\ obs'.thrown = "none"
       /\ leftDebug'.reasons = rightDebug'.reasons
       /\ leftDebug'.reasons = 
            (IF pose'.left_shoulder = Undefined
                  \/ pose'.right_shoulder = Undefined
             THEN <<<<"shoulders missing">>>>
             ELSE <<<<"low shoulder confidence">>>>)]_vars

\* A low-confidence shoulder frame reached with a limb Active, in cooldown
\* and calibration under way: all of it is still there and prev.t is the
\* frame's time.
C11_Witness ==
  /\ ShouldersUnusable(pose)
  /\ frames >= 3
  /\ pose.right_shoulder # Undefined
  /\ prev.left.PunchDetected
  /\ prev.left.CooldownUntil # Undefined
  /\ prev.left.CooldownUntil[1] > now
  /\ leftStats.total = 1
  /\ calibrationStatus = "collecting"
  /\ prev.t = now

\* The pose of C12: the left wrist present with confidence below 0.05, every
\* other keypoint of the six present and confident.
LeftWristLowOnly(keypoints) ==
  /\ ~ShouldersUnusable(keypoints)
  /\ keypoints.left_wrist # Undefined
  /\ keypoints.left_wrist[1].score < 5
  /\ keypoints.left_elbow # Undefined
  /\ keypoints.right_wrist # Undefined
  /\ keypoints.right_wrist[1].score >= 5
  /\ keypoints.right_elbow # Undefined

\* The position a limb's smoothing starts from: its filtered position, else
\* its previous hand position, else the raw position itself.
SmoothingStart(limb, curRaw) ==
  IF limb.Filtered # Undefined THEN limb.Filtered[1]
  ELSE IF limb.hand # Undefined THEN limb.hand[1] ELSE curRaw

\* C12: given a frame with the left wrist confidence at 0 and all other
\* keypoints (the left elbow included) high-confidence, the left limb's
\* diagnostics report "hand keypoint missing" and no strike is raised for the
\* left limb on that frame, while the right limb is processed normally.
C12_LowWristReportsMissing ==
  [][(FrameStep /\ LeftWristLowOnly(pose')) =>
       /\ leftDebug'.reasons = <<<<"hand keypoint missing">>>>
       /\ "left" \notin Sides(obs'.proposals)
       /\ obs'.thrown = "none"
       /\ obs'.torsoStable => "right" \in obs'.tracked]_vars

\* C12, as the code has it: on such a frame the left limb is tracked through
\* the left elbow.  Its filtered position is smoothed toward the elbow, the
\* call returns, on a stable frame both limbs go through the detector, and
\* the left diagnostics carry the detector's reasons, never "hand keypoint
\* missing"; a strike of the left limb is raised when its entry gates pass.
C12_LowWristTrackedThroughElbow ==
  [][(FrameStep /\ LeftWristLowOnly(pose')) =>
       LET elbow == Point(pose'.left_elbow[1].x, pose'.left_elbow[1].y)
           start == SmoothingStart(prev.left, elbow)
       IN /\ obs'.thrown = "none"
          /\ prev'.left.Filtered = Some(Point((6 * start.x + 4 * elbow.x + 5) \div 10, (6 * start.y + 4 * elbow.y + 5) \div 10))
          /\ prev'.left.hand = prev'.left.Filtered
          /\ leftDebug'.reasons # <<<<"hand keypoint missing">>>>
          /\ obs'.torsoStable => obs'.tracked = BothSides
          /\ "left" \in Sides(obs'.proposals) =>
               /\ leftDebug'.reasons = <<<<"Ready to strike">>>>
               /\ prev'.left.PunchDetected]_vars

\* On such a frame the left limb, followed through its elbow, raised a strike
\* and the strike was accepted.
C12_Witness ==
  /\ LeftWristLowOnly(pose)
  /\ Sides(obs.proposals) = {"left"}
  /\ Sides(obs.accepted) = {"left"}
  /\ leftStats.total = 1

\* C13: for every frame, whatever keypoints are absent or low-confidence and
\* whatever the prior state, computePunches runs to completion without
\* throwing and records the frame timestamp (prev.t = now); in particular a
\* strike accepted for a limb tracked through the elbow, its wrist keypoint
\* absent, completes normally.
C13_NoFatalErrorPath ==
  [][FrameStep => (obs'.thrown = "none" /\ prev'.t = now')]_vars

\* C13, the particular case: a frame on which the one proposal comes from a
\* limb whose wrist keypoint is absent ends with that strike accepted.
C13_ElbowStrikeCompletes ==
  [][(FrameStep /\ Sides(obs'.proposals) = {"right"}
        /\ pose'.right_wrist = Undefined) =>
       (obs'.thrown = "none" /\ Sides(obs'.accepted) = {"right"})]_vars

\* Where the call does not return: the ReferenceError needs a limb with no
\* wrist (or a low-confidence one), no elbow and no previous hand position in
\* a build that keeps const; the TypeError needs an arbitration winner whose
\* wrist keypoint is absent.  Every other call returns with prev.t = now.
C13_ThrowsOnlyThere ==
  [][FrameStep =>
       CASE obs'.thrown = "none" -> prev'.t = now'
         [] obs'.thrown = "ReferenceError" ->
              /\ build = "const"
              /\ prev'.t = prev.t
              /\ \E side \in BothSides :
                   /\ prev[side].hand = Undefined
                   /\ pose'[side \o "_elbow"] = Undefined
                   /\ \/ pose'[side \o "_wrist"] = Undefined
                      \/ pose'[side \o "_wrist"][1].score < 5
         [] obs'.thrown = "TypeError" ->
              /\ prev'.t = prev.t
              /\ obs'.proposals # << >>
              /\ pose'[Winner(obs'.proposals).side \o "_wrist"] = Undefined]_vars

\* The most recent n entries of s, in their order.
MostRecent(s, n) ==
  [i \in 1..(IF Len(s) < n THEN Len(s) ELSE n) |->
     s[Len(s) - (IF Len(s) < n THEN Len(s) ELSE n) + i]]

\* Right after the mount: a stored record less than 30 minutes old has seeded
\* both histories with its values, each cut to its most recent 50; one older
\* than 30 minutes has left both empty.
LoadedAsSaved ==
  (mounted /\ frames = 0 /\ localStorage # Undefined) =>
    LET saved == localStorage[1]
        age == TimeOrigin - saved.t
    IN /\ age < 30 * 60 * 1000 =>
            /\ leftHistory = MostRecent(saved.left, 50)
            /\ rightHistory = MostRecent(saved.right, 50)
       /\ age > 30 * 60 * 1000 =>
            /\ leftHistory = << >>
            /\ rightHistory = << >>

\* An accepted strike leaves in storage the two histories as they are after
\* the push, stamped with the current time.
SavedAsHeld ==
  (FrameStep /\ obs'.accepted # << >>) =>
    localStorage' = Some([t |-> TimeOrigin + now', left |-> leftHistory',
                          right |-> rightHistory'])

\* C14: a history record saved at time T and loaded less than 30 minutes
\* later (T + 10 min) seeds both histories with exactly the saved values in
\* the saved order, each cut to its most recent 50; a record loaded after the
\* expiry (T + 31 min) is discarded and both histories start empty.
C14_PersistenceRoundTrip == []LoadedAsSaved /\ [][SavedAsHeld]_vars

\* The record saved 10 minutes before the mount was restored, and a strike
\* accepted since has been saved on top of it.
C14_Witness ==
  /\ Len(leftHistory) = 4
  /\ SubSeq(leftHistory, 1, 3) = <<400, 600, 900>>
  /\ Sides(obs.accepted) = {"left"}
  /\ localStorage = Some([t |-> TimeOrigin + now, left |-> leftHistory,
                          right |-> rightHistory])

\* The entry conditions of C15 for a side, read off the frame: the Active
\* flag and cooldown it started with and the quantities the detector
\* published in its diagnostics (range, rest and reach over norm in 1/10000,
\* speeds in 1/1000).
EntryConditions(side, d) ==
  LET gain == IF d.rangeNorm < 600 THEN 50
              ELSE IF d.rangeNorm < 1000 THEN 60 ELSE 65
  IN /\ ~prev[side].PunchDetected
     /\ now' >= Nullish(prev[side].CooldownUntil, 0)
     /\ d.rangeNorm >= 600
     /\ d.movingForward
     /\ d.speed >= Max(600, 500 + RDiv(12 * d.rangeNorm, 100))
     /\ d.extensionNorm >= d.restNorm + RDiv(d.rangeNorm * gain, 100)

\* C15: on a stable frame with a usable hand position a limb raises a
\* pending strike, becoming Active with cooldownUntil = now + 250, if and
\* only if it was not Active at the start of the frame, now >= cooldownUntil,
\* extensionRange >= 0.06 norm, it is moving forward, speedForward >=
\* max(0.6, 0.5 + 1.2 extensionRange / norm) and distToShoulder >= rest +
\* extensionRange * triggerGain (0.5 below 6% range, 0.6 below 10%, else
\* 0.65).
C15_StrikeEntry ==
  [][FrameStep =>
       /\ Sides(obs'.proposals) \subseteq obs'.tracked
       /\ \A side \in obs'.tracked :
            LET d == IF side = "left" THEN leftDebug' ELSE rightDebug'
            IN /\ side \in Sides(obs'.proposals) <=> EntryConditions(side, d)
               /\ side \in Sides(obs'.proposals) =>
                    /\ prev'[side].PunchDetected
                    /\ prev'[side].CooldownUntil = Some(now' + 250)]_vars

\* A limb raises its second strike: it had exited Active, its earlier
\* cooldown is over, and its range is past 10% of norm.
C15_Witness ==
  \E side \in BothSides :
    /\ side \in Sides(obs.proposals)
    /\ Stats(side).total >= 1
    /\ Sides(obs.accepted) # {side} \/ Stats(side).total >= 2
    /\ DebugOf(side).rangeNorm >= 1000
    /\ prev[side].CooldownUntil = Some(now + 250)

\* The exit conditions of C16, read off the diagnostics the frame published:
\* moving backward, or reach at or below rest + 0.25 range.
ExitConditions(d) ==
  \/ d.movingBackward
  \/ d.extensionNorm <= d.restNorm + RDiv(d.rangeNorm * 25, 100)

\* C16: a limb that is Active at the start of a stable frame returns to Idle
\* on that frame if and only if it is moving backward or its distToShoulder
\* is at most rest + 0.25 extensionRange; the exit raises no strike and
\* changes no strike total, history or cooldownUntil of the limb.
C16_StrikeExit ==
  [][FrameStep =>
       \A side \in obs'.tracked :
         prev[side].PunchDetected =>
           LET d == IF side = "left" THEN leftDebug' ELSE rightDebug'
               total == IF side = "left" THEN leftStats.total
                        ELSE rightStats.total
               totalAfter == IF side = "left" THEN leftStats'.total
                             ELSE rightStats'.total
               history == IF side = "left" THEN leftHistory ELSE rightHistory
               historyAfter == IF side = "left" THEN leftHistory'
                               ELSE rightHistory'
           IN /\ ~prev'[side].PunchDetected <=> ExitConditions(d)
              /\ side \notin Sides(obs'.proposals)
              /\ totalAfter = total
              /\ historyAfter = history
              /\ prev'[side].CooldownUntil = prev[side].CooldownUntil]_vars

\* A limb that was Active has left Active on the last frame by moving
\* backward while still beyond its reset distance, its cooldown still
\* running.
C16_Witness ==
  \E side \in BothSides :
    /\ side \in obs.tracked
    /\ DebugOf(side).active
    /\ ~prev[side].PunchDetected
    /\ DebugOf(side).movingBackward
    /\ DebugOf(side).extensionNorm
         > DebugOf(side).restNorm + RDiv(DebugOf(side).rangeNorm * 25, 100)
    /\ prev[side].CooldownUntil # Undefined
    /\ prev[side].CooldownUntil[1] > now


\* The value v stands at 0-based position i of arr sorted ascending: at most
\* i elements are smaller and more than i elements are not larger.
AtRank(arr, v, i) ==
  /\ \E j \in 1..Len(arr) : arr[j] = v
  /\ Cardinality({j \in 1..Len(arr) : arr[j] < v}) <= i
  /\ Cardinality({j \in 1..Len(arr) : arr[j] <= v}) > i

\* C17 (as stated): for a history of n = 1..50 powers the baseline is the
\* element at index round(0.9 * (n - 1)) of the ascending sort, clamped to
\* 0..n-1 (n = 3 reads index 2, n = 6 reads index 5).
C17_BaselineAtRoundedIndex ==
  ranked # Undefined =>
    AtRank(sample, ranked[1],
           Min(Len(sample) - 1, Max(0, (9 * (Len(sample) - 1) + 5) \div 10)))

\* C17 (amended): for a history of n = 1..50 powers the baseline is the
\* element at index floor(0.9 * (n - 1)) of the ascending sort, which is
\* always within 0..n-1 (n = 3 reads index 1, n = 6 reads index 4).
C17_BaselineAtFloorIndex ==
  ranked # Undefined =>
    /\ Len(sample) \in 1..MaxSample
    /\ AtRank(sample, ranked[1], (9 * (Len(sample) - 1)) \div 10)

\* Three distinct powers were ranked and the middle one came back.
C17_Witness ==
  /\ ranked # Undefined
  /\ Len(sample) = 3
  /\ Cardinality({j \in 1..3 : sample[j] < ranked[1]}) = 1
  /\ Cardinality({j \in 1..3 : sample[j] > ranked[1]}) = 1


\* The case of C18: the side's wrist is absent or below confidence 0.05 and
\* its elbow is absent.
NoHandKeypoint(keypoints, side) ==
  /\ keypoints[side \o "_elbow"] = Undefined
  /\ \/ keypoints[side \o "_wrist"] = Undefined
     \/ keypoints[side \o "_wrist"][1].score < 5

\* The iteration of the side was reached and ran: the shoulders passed the
\* guard and no iteration threw before that one had set its results.
IterationRan(side) ==
  /\ ~ShouldersUnusable(pose')
  /\ side = "left" \/ obs'.thrown # "ReferenceError"

\* C18 (as stated): when a limb's wrist is missing or below confidence 0.05
\* and its elbow keypoint is also absent, the limb falls back to its previous
\* hand position, its diagnostics carry the reason "hand keypoint missing",
\* and its stored distance-to-shoulder keeps its pre-frame value.
C18_FallbackReportsMissing ==
  [][(FrameStep /\ ~ShouldersUnusable(pose')) =>
       \A side \in BothSides :
         (NoHandKeypoint(pose', side) /\ prev[side].hand # Undefined) =>
           /\ obs'.thrown = "none"
           /\ DebugOf(side)'.reasons = <<<<"hand keypoint missing">>>>
           /\ prev'[side].DistToShoulder = prev[side].DistToShoulder]_vars

\* C18, as the code has it: such a limb, when it has a previous hand
\* position, is tracked at that position like a hand that was seen.  The
\* filtered position is smoothed toward it, the stored hand position and
\* distance-to-shoulder are recomputed from the smoothed position and the
\* frame's shoulder, the diagnostics never carry "hand keypoint missing", and
\* no strike is raised for the limb.  "hand keypoint missing" is the report
\* of a limb with no previous hand position: there the stored hand position
\* becomes the shoulder and the stored distance 0.
C18_FallbackTracksPreviousHand ==
  [][FrameStep =>
       \A side \in BothSides :
         (NoHandKeypoint(pose', side) /\ IterationRan(side)) =>
           IF prev[side].hand # Undefined
           THEN LET raw == prev[side].hand[1]
                    start == SmoothingStart(prev[side], raw)
                    cur == Point((6 * start.x + 4 * raw.x + 5) \div 10,
                                 (6 * start.y + 4 * raw.y + 5) \div 10)
                    shoulder == pose'[side \o "_shoulder"][1]
                IN /\ prev'[side].Filtered = Some(cur)
                   /\ prev'[side].hand = Some(cur)
                   /\ prev'[side].DistToShoulder =
                        Some(distance(cur, Point(shoulder.x, shoulder.y)))
                   /\ DebugOf(side)'.reasons # <<<<"hand keypoint missing">>>>
                   /\ side \notin Sides(obs'.proposals)
           ELSE LET shoulder == pose'[side \o "_shoulder"][1]
                IN \/ build = "const" /\ obs'.thrown = "ReferenceError"
                   \/ /\ build = "var"
                      /\ prev'[side].hand = Some(Point(shoulder.x, shoulder.y))
                      /\ prev'[side].DistToShoulder = Some(0)
                      /\ prev'[side].Filtered = prev[side].Filtered
                      /\ DebugOf(side)'.reasons = <<<<"hand keypoint missing">>>>
                      /\ side \notin Sides(obs'.proposals)]_vars

\* A limb with a low-confidence wrist and no elbow was tracked at its
\* previous hand position while the shoulders had moved: the call returned
\* and the stored distance-to-shoulder is not the reach the limb was last
\* seen at.
C18_Witness ==
  /\ NoHandKeypoint(pose, "left")
  /\ pose.left_wrist # Undefined
  /\ obs.thrown = "none"
  /\ obs.torsoStable
  /\ "left" \in obs.tracked
  /\ leftDebug.reasons # <<<<"hand keypoint missing">>>>
  /\ prev.left.DistToShoulder # Undefined
  /\ prev.left.DistToShoulder[1] \notin {0, 3000, 9000}


\* C19: on an accepted strike the strike's power is first pushed onto that
\* limb's history (with eviction), then both histories are persisted with the
\* current time, and only then is the percent score computed, so the baseline
\* that scores a strike is taken over a non-empty history that already
\* contains the strike's own power: after the frame the history ends with the
\* power, the stored record holds both histories as they now are under the
\* frame's wall-clock time, and the score is the power over the baseline of
\* the history as it now is.
C19_ScoreAfterPushAndSave ==
  [][FrameStep =>
       \A side \in Sides(obs'.accepted) :
         LET before == History(side)
             after == History(side)'
             power == Stats(side)'.lastPower
             kept == MostRecent(before, HISTORY_SIZE - 1)
         IN /\ Len(after) = Len(kept) + 1
            /\ after[Len(after)] = power
            /\ \A i \in 1..Len(kept) : after[i] = kept[i]
            /\ localStorage' = Some([t |-> TimeOrigin + now',
                                     left |-> leftHistory',
                                     right |-> rightHistory'])
            /\ \E baseline \in {after[i] : i \in 1..Len(after)} :
                 /\ AtRank(after, baseline, (9 * (Len(after) - 1)) \div 10)
                 /\ Stats(side)'.lastPercent =
                      Min(150, (200 * power + baseline) \div (2 * baseline))]_vars

\* A strike was accepted onto a seeded history of three powers and scored
\* below the ceiling against the baseline of the four.
C19_Witness ==
  /\ Sides(obs.accepted) = {"left"}
  /\ Len(leftHistory) = 4
  /\ leftHistory[4] = leftStats.lastPower
  /\ leftStats.lastPercent \in 1..149
  /\ localStorage = Some([t |-> TimeOrigin + now, left |-> leftHistory,
                          right |-> rightHistory])


\* C20: a limb's cumulative strike count and last percent score change only
\* on frames where a strike of that limb is accepted, and then the count
\* rises by exactly 1; on every other step (no proposal, dropped proposal,
\* unstable frame, missing keypoints) they are unchanged, so the count never
\* decreases.
C20_CountAndScoreChangeOnlyOnAccept ==
  [][\A side \in BothSides :
       IF FrameStep /\ side \in Sides(obs'.accepted)
       THEN Stats(side)'.total = Stats(side).total + 1
       ELSE /\ Stats(side)'.total = Stats(side).total
            /\ Stats(side)'.lastPercent = Stats(side).lastPercent]_vars

\* A limb that has a counted, scored strike proposed another one on a later
\* frame and lost the arbitration: its count and score stand.
C20_Witness ==
  /\ \E side \in BothSides :
       /\ side \in Sides(obs.proposals)
       /\ side \notin Sides(obs.accepted)
       /\ Stats(side).total = 1
       /\ Stats(side).lastPercent > 0
  /\ obs.thrown = "none"


\* The frame ran the detector for the side: the torso was stable and the
\* side's iteration reached its diagnostics.
DetectorRan(side) == FrameStep /\ obs'.torsoStable /\ side \in obs'.tracked

ReadyToStrike(d) == d.reasons = <<<<"Ready to strike">>>>

ReportsActive(d) ==
  d.reasons = <<<<"Punch active - retract to reset">>>> /\ d.active

\* C21: diagnostics reasons are faithful to the gates: on a processed frame a
\* limb that reports exactly "Ready to strike" raises a strike on that same
\* frame, and a limb that is Active after the frame reports the active /
\* retract-to-reset reason with active = true.
C21_ReasonsFaithful ==
  [][\A side \in BothSides :
       DetectorRan(side) =>
         /\ ReadyToStrike(DebugOf(side)') => side \in Sides(obs'.proposals)
         /\ prev'[side].PunchDetected => ReportsActive(DebugOf(side)')]_vars

\* C21, first half alone: "Ready to strike" comes with a raised strike.
C21_ReadyMeansStrike ==
  [][\A side \in BothSides :
       (DetectorRan(side) /\ ReadyToStrike(DebugOf(side)')) =>
         side \in Sides(obs'.proposals)]_vars

\* C21, second half alone: Active after the frame comes with the active
\* report.
C21_ActiveMeansReported ==
  [][\A side \in BothSides :
       (DetectorRan(side) /\ prev'[side].PunchDetected) =>
         ReportsActive(DebugOf(side)')]_vars

\* What the diagnostics do say: the reasons are computed from the gates other
\* than the cooldown and from the Active flag as it was before the frame.  A
\* limb reporting "Ready to strike" raises a strike unless its cooldown is
\* still running; the active report and active = true go with the pre-frame
\* flag, so the frame that enters Active reports "Ready to strike" with
\* active = false and the frame that leaves it still reports active.
C21_ReasonsFromPreFrameFlag ==
  [][\A side \in BothSides :
       DetectorRan(side) =>
         /\ ReadyToStrike(DebugOf(side)') =>
              \/ side \in Sides(obs'.proposals)
              \/ Nullish(prev[side].CooldownUntil, 0) > now'
         /\ side \in Sides(obs'.proposals) => ReadyToStrike(DebugOf(side)')
         /\ ReportsActive(DebugOf(side)') <=> prev[side].PunchDetected
         /\ DebugOf(side)'.active <=> prev[side].PunchDetected]_vars


\* The frame passed the shoulder guard and went on to the limbs while the
\* calibration status was not yet Complete.
CalibratingFrame ==
  FrameStep /\ obs'.branch = "processed" /\ calibrationStatus # "complete"

\* The status the stored ranges after the frame call for.
StatusDue ==
  IF \E side \in BothSides : Nullish(prev'[side].RangeNorm, 0) > 1800
  THEN "complete"
  ELSE IF \E side \in BothSides : Nullish(prev'[side].RangeNorm, 0) > 800
       THEN "collecting" ELSE "waiting"

\* C22: after every frame that processes the limbs while the status is not
\* yet Complete, the status is Complete if either limb's normalized extension
\* range exceeds 0.18, otherwise Collecting if either exceeds 0.08; the update
\* is made once, after both limbs, so it sees both limbs' post-frame ranges.
C22_CalibrationProgress ==
  [][CalibratingFrame =>
       (StatusDue # "waiting" => calibrationStatus' = StatusDue)]_vars

\* C22 on the frames whose loop over the limbs ran to its end: there the
\* status after the frame is the one the post-frame ranges call for, Waiting
\* included, and Complete latches prev.calibrated.  A frame where C22 fails is
\* one whose hand-missing branch threw the ReferenceError before the
\* calibration block: its status is the one it began with.
C22_WhenLoopCompleted ==
  [][CalibratingFrame =>
       IF obs'.thrown # "ReferenceError"
       THEN /\ calibrationStatus' = StatusDue
            /\ prev'.calibrated <=> StatusDue = "complete"
       ELSE build = "const" /\ calibrationStatus' = calibrationStatus]_vars


\* Age of the stored record at the mount, in ms.
StoredAge == TimeOrigin - localStorage[1].t

\* Right after the mount, with a record in storage.
JustLoaded == mounted /\ frames = 0 /\ localStorage # Undefined

SeededFromStorage ==
  /\ leftHistory = MostRecent(localStorage[1].left, HISTORY_SIZE)
  /\ rightHistory = MostRecent(localStorage[1].right, HISTORY_SIZE)

\* C23 (as stated): a loaded record is discarded only if now - savedAt is
\* strictly greater than 30 minutes; a record whose age is exactly 30 minutes
\* or less seeds both histories.
C23_DiscardedOnlyWhenOlder ==
  JustLoaded => (StoredAge <= 30 * 60 * 1000 => SeededFromStorage)

\* C23 (amended): a loaded record seeds both histories only if now - savedAt
\* is strictly less than 30 minutes; a record whose age is exactly 30 minutes
\* or more is discarded and both histories start empty.
C23_SeededOnlyWhenYounger ==
  JustLoaded =>
    IF StoredAge < 30 * 60 * 1000 THEN SeededFromStorage
    ELSE leftHistory = << >> /\ rightHistory = << >>

\* A record of exactly 30 minutes, holding powers for both limbs, was loaded
\* and discarded.
C23_Witness ==
  /\ JustLoaded
  /\ StoredAge = 30 * 60 * 1000
  /\ localStorage[1].left # << >>
  /\ localStorage[1].right # << >>
  /\ leftHistory = << >>
  /\ rightHistory = << >>


\* The side's loop iteration computed from what the limb itself is given: the
\* frame's shoulders (norm, stability verdict, the side's shoulder), the
\* side's wrist and elbow keypoints, the side's prior state and the frame
\* times.  Nothing of the other limb enters.
OwnIteration(side) ==
  LimbStep(prev[side], pose'[side \o "_wrist"], pose'[side \o "_elbow"],
           pose'[side \o "_shoulder"][1], obs'.norm, DeltaMs(prev.t, now'),
           now', obs'.torsoStable, build)

\* The detector outcome of the side after the frame is the one of its own
\* iteration: the pending strike, the Active flag, cooldownUntil, the rest
\* estimate and the noise estimate.
OutcomeIsOwn(side, own) ==
  /\ side \in Sides(obs'.proposals) <=> own.punch # Undefined
  /\ prev'[side].PunchDetected = own.limb.PunchDetected
  /\ prev'[side].CooldownUntil = own.limb.CooldownUntil
  /\ prev'[side].RestExtension = own.limb.RestExtension
  /\ prev'[side].NoiseSpeed = own.limb.NoiseSpeed

\* The frame left the side's detector state as it was and raised nothing for
\* it.
OutcomeIsNone(side) ==
  /\ side \notin Sides(obs'.proposals)
  /\ prev'[side] = prev[side]

\* C24: on any frame, one limb's detector outcome (whether it raises a
\* pending strike, its Active flag, cooldownUntil, rest estimate and noise
\* estimate after the frame) is determined by the shoulders, that limb's hand
\* keypoints and that limb's prior state, whatever the other limb's keypoints
\* and state are; the other limb only affects the arbitration.
C24_LimbIndependence ==
  [][(FrameStep /\ obs'.branch = "processed") =>
       \A side \in BothSides :
         IF OwnIteration(side).thrown THEN OutcomeIsNone(side)
         ELSE OutcomeIsOwn(side, OwnIteration(side))]_vars

\* C24 as far as it holds: the left limb's outcome is its own on every frame,
\* and so is the right limb's on every frame whose left iteration returned.
\* When the left iteration throws the ReferenceError the right limb is never
\* reached: its outcome is none, whatever its own keypoints call for.
C24_UnlessLeftThrows ==
  [][(FrameStep /\ obs'.branch = "processed") =>
       \A side \in BothSides :
         IF OwnIteration(side).thrown
              \/ (side = "right" /\ OwnIteration("left").thrown)
         THEN OutcomeIsNone(side) /\ obs'.thrown = "ReferenceError"
         ELSE OutcomeIsOwn(side, OwnIteration(side))]_vars


\* C25: the strike detector does not gate on the calibration status: a limb
\* whose own entry conditions hold raises its strike whatever the status is,
\* and the strike that wins the arbitration is accepted when the call
\* returns; so a strike can be raised and accepted on a frame whose status is
\* still Waiting (both normalized ranges between 0.06 and 0.08).
C25_NoCalibrationGate ==
  [][\A side \in BothSides :
       (DetectorRan(side) /\ EntryConditions(side, DebugOf(side)')) =>
         /\ side \in Sides(obs'.proposals)
         /\ obs'.thrown = "none" =>
              obs'.accepted = <<Winner(obs'.proposals)>>]_vars

\* A strike was raised and accepted on a frame that began and ended Waiting,
\* both limbs' stored ranges being between 0.06 and 0.08.
C25_Witness ==
  /\ statusBefore = "waiting"
  /\ calibrationStatus = "waiting"
  /\ obs.accepted # << >>
  /\ leftStats.total + rightStats.total = 1
  /\ \A side \in BothSides : StoredRange(side) \in 600..800


\* C26: a limb's detector makes at most one Idle/Active transition per frame:
\* a limb that becomes Active on a frame (it raises a strike) was not Active
\* before it and is still Active at its end, and a limb that leaves Active on
\* a frame raises no strike on that frame.
C26_OneTransitionPerFrame ==
  [][FrameStep =>
       \A side \in BothSides :
         /\ side \in Sides(obs'.proposals) =>
              ~prev[side].PunchDetected /\ prev'[side].PunchDetected
         /\ (prev[side].PunchDetected /\ ~prev'[side].PunchDetected) =>
              side \notin Sides(obs'.proposals)
         /\ (~prev[side].PunchDetected /\ prev'[side].PunchDetected) =>
              side \in Sides(obs'.proposals)]_vars

\* A limb that had left Active on an earlier frame became Active again on the
\* last frame and is Active at its end.
C26_Witness ==
  \E side \in BothSides :
    /\ side \in Sides(obs.proposals)
    /\ prev[side].PunchDetected
    /\ ~DebugOf(side).active
    /\ Stats(side).total >= 2
    /\ lastStrike[side] = now
    /\ obs.thrown = "none"


\* C27: in every reachable state, for each limb, the length of its score
\* history is min(50, entries seeded at load + strikes accepted for that
\* limb in this session), and once a strike of the limb has been accepted
\* the last entry is the power of the most recently accepted one.
C27_HistoryTracksAccepted ==
  \A side \in BothSides :
    /\ Len(History(side)) = Min(50, seeded[side] + Stats(side).total)
    /\ lastAccepted[side] # Undefined =>
         /\ Stats(side).total >= 1
         /\ History(side)[Len(History(side))] = lastAccepted[side][1]
    /\ lastAccepted[side] = Undefined => Stats(side).total = 0

\* A limb seeded with a full history of 50 has had a strike accepted: its
\* history still holds 50 entries and ends with the power of that strike.
C27_Witness ==
  /\ seeded.left = 50
  /\ leftStats.total = 1
  /\ Len(leftHistory) = 50
  /\ lastAccepted.left # Undefined
  /\ leftHistory[50] = lastAccepted.left[1]


\* C28: the first accepted strike of a limb whose history is empty (fresh
\* session or expired record) scores exactly 100 percent, whatever its power:
\* the history it is scored against holds its own power alone.
C28_FirstStrikeScoresHundred ==
  [][FrameStep =>
       \A side \in Sides(obs'.accepted) :
         History(side) = << >> =>
           /\ History(side)' = <<PowerOf(side, obs'.accepted)>>
           /\ Stats(side)'.lastPercent = 100]_vars

\* After an expired record was discarded, a limb's first strike, of a power
\* other than 1.0, was accepted onto its empty history and scored 100.
C28_Witness ==
  \E side \in BothSides :
    /\ localStorage # Undefined
    /\ seeded[side] = 0
    /\ side \in Sides(obs.accepted)
    /\ Stats(side).total = 1
    /\ History(side) = <<PowerOf(side, obs.accepted)>>
    /\ PowerOf(side, obs.accepted) # 1000
    /\ Stats(side).lastPercent = 100


\* --------------------------------------------------- buildSegments on its own
\* Most rounds and most sets per round of a workout handed to buildSegments.
MaxRounds == 6
MaxSets == 3

\* Workouts of 1..MaxRounds rounds and 1..MaxSets sets per round, with
\* WORKOUT_DATA's durations and shorter ones.
Workouts ==
  {Workout(r, s, w, m, rest) :
     r \in 1..MaxRounds, s \in 1..MaxSets, w \in {60, 45}, m \in {30},
     rest \in {15, 10}}

InitSegments ==
  /\ Constructed
  /\ scene = "spar"
  /\ sample = << >>
  /\ ranked = Undefined
  /\ data \in Workouts
  /\ segments = Undefined
  /\ TimerConstructed
  /\ CameraConstructed

\* useMemo(() => buildSegments(data), [data])
Build ==
  /\ segments = Undefined
  /\ segments' = Some(buildSegments(data))
  /\ UNCHANGED <<prev, leftStats, rightStats, calibrationStatus, leftDebug,
                 rightDebug, leftHistory, rightHistory, localStorage, build,
                 scene, mounted, now, frames, pose, obs, statusBefore,
                 lastStrike, seeded, lastAccepted, sample, ranked, data>>
  /\ UNCHANGED cameraVars
  /\ UNCHANGED <<idx, remaining, running, idxRef, lastTickRef, sinceTick, ranSinceTick, rafRef, queue,
                 passive, applied>>

NextSegments == Build

SpecSegments == InitSegments /\ [][NextSegments]_vars

\* The workout's numbers.
RoundsOf(d) == Len(d.workout_structure.rounds)
SetsOf(d) == d.workout_structure.sets_per_round

\* 1-based position of the first segment of round r (0-based): one prepare
\* segment, then 2 * sets + 1 segments for every earlier round.
RoundStart(d, r) == 2 + r * (2 * SetsOf(d) + 1)

\* C30: for a workout with R rounds and S sets per round buildSegments
\* returns exactly 1 + 2*S*R + (R-1) segments: one 20-second prepare
\* segment, then for each round S consecutive (work, moderate) pairs of that
\* round with the configured work and moderate durations, and one rest
\* segment of the configured rest after every round except the last.
C30_SegmentsLayout ==
  segments # Undefined =>
    LET segs == segments[1]
        R == RoundsOf(data)
        S == SetsOf(data)
    IN /\ Len(segs) = 1 + 2 * S * R + (R - 1)
       /\ segs[1].phase = "prepare" /\ segs[1].duration = 20
       /\ \A r \in 0..(R - 1) :
            /\ \A s \in 0..(S - 1) :
                 LET work == segs[RoundStart(data, r) + 2 * s]
                     moderate == segs[RoundStart(data, r) + 2 * s + 1]
                 IN /\ work.phase = "work" /\ moderate.phase = "moderate"
                    /\ work.roundIndex = r /\ moderate.roundIndex = r
                    /\ work.setIndex = s /\ moderate.setIndex = s
                    /\ work.duration = data.workout_structure.work_interval_sec
                    /\ moderate.duration =
                         data.workout_structure.moderate_interval_sec
                    /\ work.label = <<"work", r + 1>>
                    /\ moderate.label = <<"moderate", r + 1>>
            /\ r < R - 1 =>
                 LET rest == segs[RoundStart(data, r) + 2 * S]
                 IN /\ rest.phase = "rest"
                    /\ rest.roundIndex = r
                    /\ rest.duration = data.rest_between_rounds_sec
       /\ Cardinality({i \in 1..Len(segs) : segs[i].phase = "rest"}) = R - 1

\* WORKOUT_DATA's segments were built: 42 of them, the last a moderate
\* segment of round 6.
C30_Witness ==
  /\ segments # Undefined
  /\ data = WORKOUT_DATA
  /\ Len(segments[1]) = 42
  /\ segments[1][42].phase = "moderate"
  /\ segments[1][42].roundIndex = 5


\* ------------------------------------------------------------ workout timer
\* The variables of the punch tracker, of the stand-alone calls and of the
\* camera page.
otherVars == <<prev, leftStats, rightStats, calibrationStatus, leftDebug, rightDebug, leftHistory, rightHistory, localStorage, build, scene, mounted, now, frames, pose, obs, statusBefore, lastStrike, seeded, lastAccepted, sample, ranked, data, segments, camPrev, camStats, camNow, camFrames, camPose, camCounted>>

\* Most updates waiting for a render.
MaxQueue == 2

\* An enqueued update that carries values: setIdx / setRemaining /
\* setRunning calls made together, each undefined when not called.  origin
\* is "tick" for the calls of a tick updater that ran when it was enqueued.
SetState(origin, i, r, run) ==
  [kind |-> "set", origin |-> origin, idx |-> i, remaining |-> r,
   running |-> run]

\* An enqueued setRemaining((r) => ...) of tick whose updater has not run.
Updater(dt) == [kind |-> "updater", dt |-> dt]

\* The updater of tick: nr = r - dt; if nr > 0 return nr; otherwise
\* next = idxRef.current + 1, setIdx(next), and the next duration, or
\* setRunning(false) and 0 past the last segment.
TickUpdater(r, dt, ref, segs) ==
  IF r - dt > 0 THEN SetState("tick", Undefined, Some(r - dt), Undefined)
  ELSE IF ref + 1 < Len(segs)
       THEN SetState("tick", Some(ref + 1), Some(segs[ref + 2].duration),
                     Undefined)
       ELSE SetState("tick", Some(ref + 1), Some(0), Some(FALSE))

\* const dt = Math.min(1, (now - lastTickRef.current) / 1000): 0 on the tick
\* that sets lastTickRef, else the time since the last tick, capped.
Dt(lastTickSet, since) == IF lastTickSet THEN Min(1, since) ELSE 0

\* A render's pass over the enqueued updates, in order.  The idx and running
\* hooks take the enqueued values; the remaining hook takes values and runs
\* the waiting updaters against idxRef.current, whose setIdx / setRunning
\* calls are render-phase updates applied after the enqueued ones.
RECURSIVE Reduce(_, _, _, _)
Reduce(q, st, ref, segs) ==
  IF q = << >> THEN st
  ELSE LET u == Head(q)
           e == IF u.kind = "set" THEN u
                ELSE TickUpdater(st.remaining, u.dt, ref, segs)
           late == u.kind = "updater"
       IN Reduce(Tail(q),
                 [idx |-> IF ~late /\ e.idx # Undefined THEN e.idx[1]
                          ELSE st.idx,
                  remaining |-> Nullish(e.remaining, st.remaining),
                  running |-> IF ~late /\ e.running # Undefined
                              THEN e.running[1] ELSE st.running,
                  lateIdx |-> IF late /\ e.idx # Undefined THEN e.idx
                              ELSE st.lateIdx,
                  lateRunning |-> IF late /\ e.running # Undefined
                                  THEN e.running ELSE st.lateRunning,
                  applied |-> Append(st.applied, e)],
                 ref, segs)

\* The state a render of the queue q commits.
Rendered(q, i, r, run, ref, segs) ==
  LET st == Reduce(q, [idx |-> i, remaining |-> r, running |-> run,
                       lateIdx |-> Undefined, lateRunning |-> Undefined,
                       applied |-> << >>], ref, segs)
  IN [idx |-> Nullish(st.lateIdx, st.idx), remaining |-> st.remaining,
      running |-> Nullish(st.lateRunning, st.running), applied |-> st.applied]

\* A click: effects still waiting run first, the handler's updates join the
\* queue, the render and the commit follow at once, and so do the effects of
\* that commit (idxRef.current = idx; the tick effect follows running).
Click(update) ==
  \E c \in {Rendered(Append(queue, update), idx, remaining, running, idx, segments[1])} :
    /\ idx' = c.idx
    /\ remaining' = c.remaining
    /\ running' = c.running
    /\ applied' = c.applied
    /\ idxRef' = c.idx
    /\ rafRef' = c.running
    /\ queue' = << >>
    /\ passive' = FALSE
    /\ UNCHANGED <<lastTickRef, sinceTick, ranSinceTick, otherVars>>

\* start(), behind the Start / Resume button (shown when not running,
\* disabled once idx >= segments.length).
start ==
  /\ segments # Undefined
  /\ ~running /\ idx < Len(segments[1])
  /\ Len(segments[1]) # 0
  /\ Click(IF idx = -1
           THEN SetState("start", Some(0), Some(segments[1][1].duration),
                         Some(TRUE))
           ELSE SetState("start", Undefined, Undefined, Some(TRUE)))

\* pause(), behind the Pause button (shown when running).
pause ==
  /\ segments # Undefined
  /\ running
  /\ Click(SetState("pause", Undefined, Undefined, Some(FALSE)))

\* reset()
reset ==
  /\ segments # Undefined
  /\ Click(SetState("reset", Some(-1), Some(0), Some(FALSE)))

\* skip(), were it to leave the remaining time as it is.
skipKeepingRemaining ==
  /\ segments # Undefined
  /\ idx >= 0 /\ idx < Len(segments[1])
  /\ Click(IF idx < Len(segments[1]) - 1
           THEN SetState("skip", Some(idx + 1), Undefined, Undefined)
           ELSE SetState("skip", Some(Len(segments[1])), Undefined,
                         Some(FALSE)))

\* skip(), behind the Skip button (disabled when there is no current
\* segment).
skip ==
  /\ segments # Undefined
  /\ idx >= 0 /\ idx < Len(segments[1])
  /\ Click(IF idx < Len(segments[1]) - 1
           THEN SetState("skip", Some(idx + 1),
                         Some(segments[1][idx + 2].duration), Undefined)
           ELSE SetState("skip", Some(Len(segments[1])), Undefined,
                         Some(FALSE)))

\* tick(now), a registered animation-frame callback: it enqueues
\* setRemaining(updater) and registers itself again.  The updater runs at
\* once when nothing else is waiting (and enqueues nothing when it returns
\* the state unchanged), or waits for the render.
tick ==
  /\ segments # Undefined
  /\ rafRef
  /\ Len(queue) < MaxQueue
  /\ lastTickRef' = TRUE
  /\ sinceTick' = 0
  /\ ranSinceTick' = 0
  /\ \/ /\ queue = << >>
        /\ \E e \in {TickUpdater(remaining, Dt(lastTickRef, sinceTick), idxRef, segments[1])} :
             queue' = (IF e.idx = Undefined /\ e.remaining = Some(remaining) THEN << >> ELSE <<e>>)
     \/ queue' = Append(queue, Updater(Dt(lastTickRef, sinceTick)))
  /\ applied' = << >>
  /\ UNCHANGED <<idx, remaining, running, idxRef, rafRef, passive, otherVars>>

\* The render scheduled by a tick: effects still waiting run first, the
\* queue is reduced and committed; the effects of this commit wait.
render ==
  /\ segments # Undefined
  /\ queue # << >>
  /\ \E c \in {Rendered(queue, idx, remaining, running, idx, segments[1])} :
       /\ idx' = c.idx
       /\ remaining' = c.remaining
       /\ running' = c.running
       /\ applied' = c.applied
       /\ idxRef' = idx
       /\ rafRef' = running
       /\ passive' = (c.idx # idx \/ c.running # running)
  /\ queue' = << >>
  /\ UNCHANGED <<lastTickRef, sinceTick, ranSinceTick, otherVars>>

\* The effects of the last commit: idxRef.current = idx, and the tick effect
\* cancels or registers its callback as running says.
effects ==
  /\ passive
  /\ idxRef' = idx
  /\ rafRef' = running
  /\ passive' = FALSE
  /\ applied' = << >>
  /\ UNCHANGED <<idx, remaining, running, lastTickRef, sinceTick, ranSinceTick, queue, otherVars>>

\* A second passes with no handler, callback or render in it.  Time is
\* counted up to the second at which dt is capped.
wait ==
  /\ segments # Undefined
  /\ sinceTick' = Min(1, sinceTick + 1)
  /\ ranSinceTick' = (IF running THEN Min(1, ranSinceTick + 1) ELSE ranSinceTick)
  /\ applied' = << >>
  /\ UNCHANGED <<idx, remaining, running, idxRef, lastTickRef, rafRef, queue, passive, otherVars>>

InitTimer ==
  /\ Constructed
  /\ scene = "spar"
  /\ sample = << >>
  /\ ranked = Undefined
  /\ data = WORKOUT_DATA
  /\ segments = Some(buildSegments(data))
  /\ TimerConstructed
  /\ CameraConstructed

NextTimer == start \/ pause \/ reset \/ skip \/ tick \/ wait \/ render \/ effects

SpecTimer == InitTimer /\ [][NextTimer]_vars

\* The duration of segment i, counted from 0 as idx counts.
DurationAt(i) == segments[1][i + 1].duration

\* The commit of this step applied an update of the handler named.
Clicked(handler) == \E k \in 1..Len(applied') : applied'[k].origin = handler

\* A step that renders the waiting updates and commits.
Commits == applied' # << >>

\* What a step of the timer may do: idx changes only to idx + 1 (or to -1);
\* a tick that runs out while the timer runs in a segment moves idx one
\* segment on and returns the next segment's full duration (0 past the
\* last), and the commit carries that move; within a segment the remaining
\* time never grows; a segment is entered with its full duration, less the
\* ticks committed with the entry.
AdvancesExactlyOne ==
  /\ idx' # idx => (idx' = idx + 1 \/ idx' = -1)
  /\ (Commits /\ running /\ idx >= 0 /\ idx < Len(segments[1])) =>
       \A k \in 1..Len(applied') :
         (applied'[k].origin = "tick" /\ applied'[k].idx # Undefined) =>
           /\ applied'[k].idx[1] = idx + 1
           /\ idx' = idx + 1
           /\ applied'[k].remaining[1] = (IF idx + 1 < Len(segments[1]) THEN DurationAt(idx + 1) ELSE 0)
  /\ (idx' = idx /\ idx >= 0 /\ idx < Len(segments[1])) =>
       remaining' <= remaining
  /\ (idx' = idx + 1 /\ idx' < Len(segments[1])) =>
       /\ remaining' <= DurationAt(idx')
       /\ remaining' >= DurationAt(idx') - MaxQueue

\* C29: whenever the remaining time of the current segment reaches zero on
\* a running tick, the timer advances exactly one segment and sets the
\* remaining time to that segment's full duration in the same update; under
\* every interleaving of ticks with the handlers and the deferred idxRef
\* sync, no segment is skipped and none is entered twice.
C29_AdvancesExactlyOne == [][segments # Undefined => AdvancesExactlyOne]_vars

\* C29, what holds: the same on every step whose commit carries no reset(),
\* that is under every interleaving of ticks with skip(), pause(), start()
\* and the deferred idxRef sync.
C29_UnlessReset == [][(segments # Undefined /\ ~(Commits /\ Clicked("reset"))) => AdvancesExactlyOne]_vars

\* C29: the commit of a reset() left the timer in a later segment with no
\* time remaining.
C29_ResetOverridden ==
  /\ segments # Undefined
  /\ \E k \in 1..Len(applied) : applied[k].origin = "reset"
  /\ idx >= 1 /\ idx < Len(segments[1])
  /\ remaining = 0 /\ ~running

\* C29: a tick ran out and moved the timer to the next segment, and the
\* idxRef sync of that commit is still waiting while the next tick is due.
C29_StaleWindow ==
  /\ segments # Undefined
  /\ running /\ passive /\ rafRef
  /\ idx >= 1 /\ idx < Len(segments[1])
  /\ idxRef = idx - 1
  /\ \E k \in 1..Len(applied) : applied[k].origin = "tick" /\ applied[k].idx = Some(idx)

\* idx names no segment: the timer has not started or has finished.
NoCurrent == idx = -1 \/ idx = Len(segments[1])

\* C31: under any sequence of start, pause, reset, skip and tick events that
\* respects the button guards, idx stays within -1..segments.length, and
\* running is false whenever idx is -1 or idx equals segments.length.
C31_IndexBounds ==
  segments # Undefined =>
    /\ idx >= -1 /\ idx <= Len(segments[1])
    /\ NoCurrent => ~running

\* C31, what holds: idx stays within -1..segments.length + 1, and the timer
\* does not run when idx names no segment.
C31_IndexWithinOneOfEnd ==
  segments # Undefined =>
    /\ idx >= -1 /\ idx <= Len(segments[1]) + 1
    /\ (idx = -1 \/ idx >= Len(segments[1])) => ~running

\* C31: the timer finished and a later tick moved idx past segments.length.
C31_Overshoot ==
  /\ segments # Undefined
  /\ idx = Len(segments[1]) + 1
  /\ \A k \in 1..Len(applied) : applied[k].origin = "tick"

\* The remaining time belongs to the current segment.
RemainingInSegment == (idx >= 0 /\ idx < Len(segments[1])) => (remaining > 0 /\ remaining <= DurationAt(idx))

\* C32: in every reachable state with a current segment
\* (0 <= idx < segments.length) the remaining time satisfies
\* 0 < remaining <= duration of segment idx.
C32_RemainingBounds == segments # Undefined => RemainingInSegment

\* C32, what holds: every step whose commit carries no reset() keeps the
\* remaining time within the current segment's bounds.
C32_UnlessReset == [][(segments # Undefined /\ RemainingInSegment /\ ~(Commits /\ Clicked("reset"))) => RemainingInSegment']_vars

\* The timer left alone after Start: ticks keep occurring, React renders
\* what is enqueued and runs the effects it owes; the user may skip but
\* never pauses or resets.
NextRunning == start \/ skip \/ tick \/ wait \/ render \/ effects

SpecRunning ==
  /\ InitTimer
  /\ [][NextRunning]_vars
  /\ WF_vars(tick) /\ WF_vars(wait) /\ WF_vars(render) /\ WF_vars(effects)

\* The finished state: idx = segments.length and not running.
Finished == idx = Len(segments[1]) /\ ~running

\* idx moves one segment at a time.
InOrder == idx' = idx \/ idx' = idx + 1

\* C33: once started, if ticks keep occurring and the user never pauses or
\* resets, the timer visits the segment indexes in order and eventually
\* reaches idx = segments.length with running = false; from that finished
\* state no tick changes the state any more.
C33_Completion ==
  /\ [][InOrder]_vars
  /\ (idx >= 0 /\ idx < Len(segments[1])) ~> Finished
  /\ [][Finished => <<idx, remaining, running>>' = <<idx, remaining, running>>]_vars

\* C33, what holds: the segments are visited in order, the finished state
\* is reached, and from then on the timer stays stopped at or past
\* segments.length with the remaining time unchanged.
C33_ReachesEnd ==
  /\ [][InOrder]_vars
  /\ (idx >= 0 /\ idx < Len(segments[1])) ~> Finished
  /\ [][Finished => (idx' >= idx /\ remaining' = remaining /\ ~running')]_vars

\* The timer is paused: not running, with a current segment.
Paused == ~running /\ idx >= 0 /\ idx < Len(segments[1])

\* While paused, idx and remaining change only in the commit of a skip() or
\* a reset().
PausedChangesByClick == (Paused /\ <<idx, remaining>>' # <<idx, remaining>>) => (Clicked("skip") \/ Clicked("reset"))

\* C34: while the timer is not running, idx and remaining change only
\* through skip or reset, and time that passes while paused is never
\* deducted: what a tick deducts is no more than the time the timer was
\* running since the tick before it.
C34_PausedTimeNotDeducted == [][segments # Undefined => (PausedChangesByClick /\ (tick => Dt(lastTickRef, sinceTick) <= ranSinceTick))]_vars

\* C34, what holds: while paused, idx and remaining change only through
\* skip or reset, and a tick deducts no more than the time since the tick
\* before it and no more than a second.
C34_AtMostOneSecond == [][segments # Undefined => (PausedChangesByClick /\ (tick => (Dt(lastTickRef, sinceTick) <= sinceTick /\ Dt(lastTickRef, sinceTick) <= 1)))]_vars

\* C34: a tick is due after a Resume, and all the time since the tick before
\* it was spent paused.
C34_ResumedAfterPause ==
  /\ segments # Undefined
  /\ running /\ rafRef /\ lastTickRef
  /\ sinceTick = 1 /\ ranSinceTick = 0
  /\ \E k \in 1..Len(applied) : applied[k].origin = "start"

\* C35: skip on a non-last segment moves to idx + 1 with remaining set to
\* that segment's full duration and leaves running unchanged; skip on the
\* last segment moves to the finished state (idx = segments.length) and
\* stops running; start when idx >= 0 only sets running and leaves idx and
\* remaining unchanged.
C35_SkipAndResume ==
  [][segments # Undefined =>
       /\ (Clicked("skip") /\ idx < Len(segments[1]) - 1) =>
            /\ idx' = idx + 1
            /\ remaining' = DurationAt(idx + 1)
            /\ running' = running
       /\ (Clicked("skip") /\ idx = Len(segments[1]) - 1) =>
            /\ idx' = Len(segments[1])
            /\ ~running'
       /\ (Clicked("start") /\ idx >= 0) =>
            /\ running'
            /\ idx' = idx
            /\ remaining' = remaining]_vars

\* C35: a skip() of the last segment has just finished the timer while it
\* was running.
C35_Witness ==
  /\ segments # Undefined
  /\ idx = Len(segments[1]) /\ ~running
  /\ \E k \in 1..Len(applied) : applied[k].origin = "skip"
  /\ \E k \in 1..Len(applied) : applied[k].origin = "tick"

\* ------------------------------------------------------------ camera page
\* Lengths are pixels along x, times are ms of performance.now(); speeds and
\* powers are kept in thousandths.

\* Number of frames handed to CameraPage's computePunches in one run.
MaxCameraFrames == 4

\* const dt = Math.max((now - (prevRef.current.t || now)) / 1000, 1 / 120),
\* in units of 1/6000 s.
CamDt(tNow, t) == Max((tNow - (IF t = 0 THEN tNow ELSE t)) * 6, 50)

\* const speed = (dpx / norm) / dt, in thousandths.
CamSpeed(dpx, norm, dt) == RDiv(dpx * 6000 * 1000, norm * dt)

\* speed > threshold, with threshold = 2.0.
CamFast(dpx, norm, dt) == dpx * 6000 > 2 * norm * dt

\* const power = speed * Math.max(0.5, Math.min(1.5, distNorm)).
CamPower(speed, dist, norm) == RDiv(speed * Max(500, Min(1500, RDiv(dist * 1000, norm))), 1000)

\* const extending = prevDist !== undefined ? distToShoulder > prevDist : false
CamExtending(dist, prevDist) == IF prevDist # Undefined THEN dist > prevDist[1] ELSE FALSE

\* The cooldown test, were it never to find a side in cooldown.
CamNeverInCooldown(cooldownUntil, tNow) == FALSE

\* const inCooldown = (cooldownUntil || 0) > now
CamInCooldown(cooldownUntil, tNow) == Nullish(cooldownUntil, 0) > tNow

\* const isPunchLike = speed > threshold && extending && !inCooldown
CamPunchLike(limb, wrist, dist, norm, dt, tNow) == CamFast(Abs(wrist - limb.wrist[1]), norm, dt) /\ CamExtending(dist, limb.DistToShoulder) /\ ~CamInCooldown(limb.CooldownUntil, tNow)

\* The stats after a frame with a previous wrist: a counted punch raises the
\* total; every such frame stores the speed and the power.
CamStatsAfter(stats, limb, wrist, dist, norm, dt, counted) == [total |-> IF counted THEN stats.total + 1 ELSE stats.total, lastSpeed |-> CamSpeed(Abs(wrist - limb.wrist[1]), norm, dt), lastPower |-> CamPower(CamSpeed(Abs(wrist - limb.wrist[1]), norm, dt), dist, norm)]

\* One side's pass of the loop over the sides: the test, the stats, the
\* cooldown of a counted punch, then the cache of this frame's wrist and
\* distance.
CamLimbStep(limb, stats, wrist, shoulder, norm, dt, tNow) ==
  IF limb.wrist = Undefined
  THEN [limb |-> [limb EXCEPT !.wrist = Some(wrist), !.DistToShoulder = Some(Abs(wrist - shoulder))],
        stats |-> stats, counted |-> FALSE]
  ELSE IF CamPunchLike(limb, wrist, Abs(wrist - shoulder), norm, dt, tNow)
       THEN [limb |-> [wrist |-> Some(wrist), DistToShoulder |-> Some(Abs(wrist - shoulder)), CooldownUntil |-> Some(tNow + 300)],
             stats |-> CamStatsAfter(stats, limb, wrist, Abs(wrist - shoulder), norm, dt, TRUE),
             counted |-> TRUE]
       ELSE [limb |-> [limb EXCEPT !.wrist = Some(wrist), !.DistToShoulder = Some(Abs(wrist - shoulder))],
             stats |-> CamStatsAfter(stats, limb, wrist, Abs(wrist - shoulder), norm, dt, FALSE),
             counted |-> FALSE]

\* if (!ls || !rs || !lw || !rw) return
CamIncomplete(kps) == kps.left_shoulder = Undefined \/ kps.right_shoulder = Undefined \/ kps.left_wrist = Undefined \/ kps.right_wrist = Undefined

\* const norm = Math.max(shoulderSpan, 1)
CamNorm(kps) == Max(Abs(kps.left_shoulder[1] - kps.right_shoulder[1]), 1)

\* CameraPage's computePunches: nothing on an incomplete pose; otherwise
\* both sides in turn, then prev.t = now.
CamComputePunches(p, stats, tNow, kps) ==
  IF CamIncomplete(kps)
  THEN [prev |-> p, stats |-> stats, counted |-> [side \in {"left", "right"} |-> FALSE]]
  ELSE LET l == CamLimbStep(p.left, stats.left, kps.left_wrist[1], kps.left_shoulder[1], CamNorm(kps), CamDt(tNow, p.t), tNow)
           r == CamLimbStep(p.right, stats.right, kps.right_wrist[1], kps.right_shoulder[1], CamNorm(kps), CamDt(tNow, p.t), tNow)
       IN [prev |-> [t |-> tNow, left |-> l.limb, right |-> r.limb],
           stats |-> [side \in {"left", "right"} |-> IF side = "left" THEN l.stats ELSE r.stats],
           counted |-> [side \in {"left", "right"} |-> IF side = "left" THEN l.counted ELSE r.counted]]

\* Time between two frames, ms.
CamDeltas == {100, 200}

\* A pose with the shoulders at x = 100 and x = 200 and the wrists as far
\* outside them as given.
CamPoseAt(leftReach, rightReach) == [left_shoulder |-> Some(100), right_shoulder |-> Some(200), left_wrist |-> Some(100 - leftReach), right_wrist |-> Some(200 + rightReach)]

\* The poses of a frame: wrists at rest, a little or far out, and poses
\* lacking a wrist or a shoulder.
CamPoses ==
  {CamPoseAt(l, r) : l \in {30, 45, 90}, r \in {30, 90}}
    \cup {[CamPoseAt(30, 30) EXCEPT !.left_wrist = Undefined],
          [CamPoseAt(90, 90) EXCEPT !.right_shoulder = Undefined]}

InitCamera ==
  /\ Constructed
  /\ scene = "spar"
  /\ sample = << >>
  /\ ranked = Undefined
  /\ TimerUnused

\* One pass of CameraPage's loop with a pose: computePunches(poses[0]).
CameraFrame ==
  /\ camFrames < MaxCameraFrames
  /\ \E delta \in CamDeltas, kps \in CamPoses :
       \E r \in {CamComputePunches(camPrev, camStats, camNow + delta, kps)} :
         /\ camPrev' = r.prev
         /\ camStats' = r.stats
         /\ camNow' = camNow + delta
         /\ camPose' = kps
         /\ camCounted' = [side \in {"left", "right"} |-> IF r.counted[side] THEN Some(camNow + delta) ELSE camCounted[side]]
  /\ camFrames' = camFrames + 1
  /\ UNCHANGED <<prev, leftStats, rightStats, calibrationStatus, leftDebug, rightDebug, leftHistory, rightHistory, localStorage, build, scene, mounted, now, frames, pose, obs, statusBefore, lastStrike, seeded, lastAccepted, sample, ranked>>
  /\ UNCHANGED timerVars

NextCamera == CameraFrame

SpecCamera == InitCamera /\ [][NextCamera]_vars

\* The frame of this step counted a punch of the side.
CamCountedNow(side) == camStats'[side].total = camStats[side].total + 1

\* The side's wrist and shoulder in the pose of this step's frame.
CamWrist(side) == IF side = "left" THEN camPose'.left_wrist[1] ELSE camPose'.right_wrist[1]
CamShoulder(side) == IF side = "left" THEN camPose'.left_shoulder[1] ELSE camPose'.right_shoulder[1]

\* What a counted punch of the side takes: a complete pose, a previous
\* wrist position, speed > 2.0 over the time since the previous frame, a
\* wrist-to-shoulder distance that grew, and no cooldown still running.
CamCountedOnlyIf(side) ==
  CamCountedNow(side) =>
    /\ ~CamIncomplete(camPose')
    /\ camPrev[side].wrist # Undefined
    /\ Abs(CamWrist(side) - camPrev[side].wrist[1]) * 6000 > 2 * CamNorm(camPose') * CamDt(camNow', camPrev.t)
    /\ camPrev[side].DistToShoulder # Undefined
    /\ Abs(CamWrist(side) - CamShoulder(side)) > camPrev[side].DistToShoulder[1]
    /\ Nullish(camPrev[side].CooldownUntil, 0) <= camNow'

\* C36: for each side, a punch is counted on a frame only if a previous
\* wrist position exists, speed > 2.0, the wrist-to-shoulder distance grew
\* since the previous frame and the side is not in cooldown; two counted
\* punches of the same side are at least 300 ms apart, and each side's total
\* rises by at most 1 per frame.
C36_CameraPunches ==
  [][\A side \in {"left", "right"} :
       /\ CamCountedOnlyIf(side)
       /\ (CamCountedNow(side) /\ camCounted[side] # Undefined) => camNow' - camCounted[side][1] >= 300
       /\ (camStats'[side].total = camStats[side].total \/ CamCountedNow(side))]_vars

\* C36: both sides were counted on the same frame (no cross-limb
\* arbitration), each for the second time, 300 ms after its first.
C36_Witness ==
  /\ camCounted.left = Some(camNow) /\ camCounted.right = Some(camNow)
  /\ camStats.left.total = 2 /\ camStats.right.total = 2
  /\ camPrev.t = camNow

====
